---- MODULE Spec2Model ----
(***************************************************************************)
(* Bid submission, duplicate handling, cancellation, chunked submission    *)
(* and auction matching of the flow SDK, modelled from                     *)
(*   src/flow/clients/http_client.py, src/flow/clients/fcp_client.py,      *)
(*   src/flow/clients/foundry_client.py, src/flow/models/bid_response.py,  *)
(*   src/flow/managers/bid_manager.py, src/flow/managers/auction_finder.py *)
(***************************************************************************)
EXTENDS Integers, Sequences, FiniteSets, TLC

(***************************************************************************)
(* Bounds of the model.                                                    *)
(***************************************************************************)
MaxRequests == 3      \* HTTP requests sent in one behaviour
MaxQuantity == 3      \* largest instance_quantity of a chunked call
MaxChunkSize == 2     \* largest chunk_size of a chunked call
MaxAuctions == 4      \* longest auctions list given to find_matching_auctions
MaxLive == 2          \* longest list get_auctions returns
MaxCatalog == 2       \* most auctions in a catalog file

Bases == {"jobA", "jobB"}   \* order names the caller uses

NoValue == "None"           \* Python's None

(***************************************************************************)
(* Text.  A text is a sequence of word tokens; str.lower() maps every      *)
(* token to its lower-case form and `needle in text` is contiguous         *)
(* containment.                                                            *)
(***************************************************************************)
LowerToken(t) ==
    CASE t = "Order" -> "order"
      [] t = "Bid"   -> "bid"
      [] t = "Not"   -> "not"
      [] t = "Found" -> "found"
      [] OTHER       -> t

Lower(text) == [i \in 1..Len(text) |-> LowerToken(text[i])]

Contains(text, needle) ==
    \E i \in 0..(Len(text) - Len(needle)) :
        \A j \in 1..Len(needle) : text[i + j] = needle[j]

\* Bodies of error replies.
OrderNamedExistsBody == <<"Order", "named", "NAME", "already", "exists">>
BidExistsBody        == <<"error", "Bid", "already", "exists">>
BidNotFoundBody      == <<"detail", "Bid", "not", "found">>
ServerErrorBody      == <<"Internal", "Server", "Error">>
UnauthorizedBody     == <<"Unauthorized">>

(***************************************************************************)
(* Order names.  chunk = 0 is the plain order_name, chunk = n > 0 is the   *)
(* name with the suffix "-chunk<n>".                                       *)
(***************************************************************************)
PlainName(base) == [base |-> base, chunk |-> 0]

ChunkOrderName(base, n) == [base |-> base, chunk |-> n]

(***************************************************************************)
(* BidPayload as sent by the client.                                       *)
(***************************************************************************)
Payload(name, quantity, script) ==
    [order_name        |-> name,
     instance_quantity |-> quantity,
     startup_script    |-> script,
     cluster_id        |-> "cluster1",
     instance_type_id  |-> "t1",
     limit_price_cents |-> 2000,
     project_id        |-> "proj1"]

VARIABLES
    remoteOrders,    \* orders the remote has accepted, in arrival order
    cancelled,       \* bid ids the remote has cancelled
    requests,        \* the HTTP requests of the call in progress, in order
    keysSent,        \* <<kind of call, order name, idempotency key>> of the submitter's POSTs
    nsent,           \* number of HTTP requests sent so far
    nextUuid,        \* number of uuid4() values drawn so far
    pc,              \* where the caller is
    call,            \* the operation the caller has in progress
    req,             \* the HTTP request in flight
    resp,            \* what the transport handed back for req
    result,          \* what the finished operation gave its caller
    remaining,       \* submit_chunks: remaining
    chunk_index,     \* submit_chunks: chunk_index
    bids_submitted,  \* submit_chunks: bids_submitted
    auction,         \* AuctionMatcher.matches: the auction argument
    criteria,        \* AuctionMatcher: self._criteria
    check_results,   \* AuctionMatcher.matches: check_results
    matched,         \* AuctionMatcher.matches: the value returned
    auctions,        \* find_matching_auctions: the auctions argument
    matching_auctions, \* find_matching_auctions: matching_auctions
    find_i,          \* find_matching_auctions: position of the comprehension
    find_pc,         \* find_matching_auctions: where the call is
    fetch_args,      \* fetch_auctions: project_id and local_catalog_path
    files,           \* the catalog files: the one at local_catalog_path, the default one
    catalog,         \* the auctions a well-formed catalog file holds
    live,            \* what the marketplace client's get_auctions gives
    get_auctions_calls, \* number of get_auctions calls made
    fetch_pc,        \* fetch_auctions: where the call is
    auctions_from_foundry, \* fetch_auctions: auctions_from_foundry
    auctions_from_local,   \* fetch_auctions: auctions_from_local
    fetched,         \* fetch_auctions: the value returned or the exception raised
    enriched_again,  \* _enrich_auctions_with_catalog_data applied to fetched
    run_config,      \* FlowTaskManager.run: the task's configuration
    run_pc,          \* FlowTaskManager.run: where the run is
    stages,          \* FlowTaskManager.run: the stages entered, in order
    run_result,      \* FlowTaskManager.run: returned, or the exception raised
    failed_stage,    \* FlowTaskManager.run: the stage that raised
    run_limit_price, \* run: limit_price_cents
    run_matching,    \* run: matching_auctions
    bid_payload,     \* _prepare_and_submit_bid: bid_payload
    bids_placed,     \* the payloads handed to BidManager.submit_bid
    stale_disk,      \* a disk of the configured name is left from a prior run
    status_code_exposed, \* APIError carries the response's status as status_code
    attempts,        \* the caller of run: calls of run made
    first_failure,   \* the caller of run: what the first run raised
    disk_deleted,    \* the caller of run: delete_disk succeeded
    driver_pc,       \* the caller of run: where it is
    driver_result,   \* the caller of run: what reaches its own caller
    http_call,       \* HTTPClient: the call made and the client's configuration
    transport,       \* what the server side does with the attempts of the call
    http_attempts,   \* attempts the session's adapter has made
    session_outcome, \* what session.request returned or raised
    http_pc,         \* HTTPClient.request: where the call is
    http_result,     \* what the call gave its caller
    threads,         \* place_bid called from threads: each thread's call
    raw_data,        \* _load_auctions_from_local_catalog: the file's entries, in order
    load_i,          \* _load_auctions_from_local_catalog: entries gone through
    all_auctions,    \* _load_auctions_from_local_catalog: all_auctions
    load_result,     \* _load_auctions_from_local_catalog: returned or raised
    chunked_engine,  \* BidManager.chunked_engine, shared by the callers
    callers          \* submit_bid called from two threads: each thread's call

bidVars == <<remoteOrders, cancelled, requests, keysSent, nsent, nextUuid, pc, call,
             req, resp, result, remaining, chunk_index, bids_submitted>>

matchVars == <<auction, criteria, check_results, matched>>

findVars == <<auctions, matching_auctions, find_i, find_pc>>

fetchVars == <<fetch_args, files, catalog, live, get_auctions_calls, fetch_pc,
               auctions_from_foundry, auctions_from_local, fetched, enriched_again>>

runVars == <<run_config, run_pc, stages, run_result, failed_stage, run_limit_price,
             run_matching, bid_payload, bids_placed>>

driverVars == <<stale_disk, status_code_exposed, attempts, first_failure,
                disk_deleted, driver_pc, driver_result>>

httpVars == <<http_call, transport, http_attempts, session_outcome, http_pc,
              http_result>>

\* The client layer and the loaders, modelled on their own.
loadVars == <<raw_data, load_i, all_auctions, load_result>>

engineVars == <<chunked_engine, callers>>

otherVars == <<httpVars, threads, loadVars, engineVars>>

\* Everything but the bid machinery and the matcher.
restVars == <<findVars, fetchVars, runVars, driverVars, otherVars>>

\* Everything but find_matching_auctions / but fetch_auctions / but run.
notFindVars == <<bidVars, matchVars, fetchVars, runVars, driverVars, otherVars>>
notFetchVars == <<bidVars, matchVars, findVars, runVars, driverVars, otherVars>>
notRunVars == <<bidVars, matchVars, findVars, fetchVars, driverVars, otherVars>>

\* Everything but the HTTP client.
notHttpVars == <<bidVars, matchVars, findVars, fetchVars, runVars, driverVars, threads,
                 loadVars, engineVars>>

vars == <<bidVars, matchVars, restVars>>

\* The arguments of a submit_bid call are complete (NoDefect) or have one
\* field, or all of them, absent (how = "None"), falsy (how = "falsy": "" or
\* 0) or below zero (how = "negative").
NoDefect == [field |-> "none", how |-> "none"]

NoCall   == [kind |-> "none", base |-> NoValue, quantity |-> 0, chunk_size |-> 0,
             customizer |-> "none", bid_id |-> 0, first |-> 0, key |-> <<"none", 0>>,
             orders_before |-> 0,
             entry |-> "none", has_payload |-> FALSE, allow_partial |-> FALSE,
             defect |-> NoDefect]
NoReq    == [method |-> "none"]
NoResp   == [kind |-> "none", origin |-> "none"]
NoResult == [kind |-> "none"]

(***************************************************************************)
(* Identifiers and keys.                                                   *)
(***************************************************************************)
Uuid(n)   == <<"uuid", n>>          \* the n-th value of str(uuid.uuid4())
BidId(n)  == <<"bid", n>>           \* id the remote gives its n-th order
NoKey     == <<"none", 0>>          \* idempotency_key=None
CallerKey == <<"caller", 1>>        \* a key supplied by the caller

(***************************************************************************)
(* Outcomes of a call: a returned value or a raised exception.             *)
(***************************************************************************)
Return(v) == [kind |-> "return", value |-> v]

Raise(exc, msg, cause) == [kind |-> "raise", exc |-> exc, msg |-> msg, cause |-> cause]

(***************************************************************************)
(* HTTP responses.  json says whether the body parses as JSON, body is the *)
(* text of the body and data the parsed JSON object.  origin records which *)
(* step of the environment produced the response; the client never reads   *)
(* it.                                                                     *)
(***************************************************************************)
NoData == [empty |-> TRUE]

Response(status, json, body, data, origin) ==
    [kind |-> "response", status |-> status, json |-> json, body |-> body,
     data |-> data, origin |-> origin]

(***************************************************************************)
(* BidResponse (models/bid_response.py): the fields of the model and the   *)
(* ones validation requires.                                               *)
(***************************************************************************)
BidResponseFields ==
    {"id", "name", "cluster_id", "instance_quantity", "instance_type_id",
     "limit_price_cents", "project_id", "user_id", "disk_ids", "created_at",
     "deactivated_at"}

BidResponseRequired ==
    {"id", "cluster_id", "instance_quantity", "instance_type_id", "limit_price_cents"}

\* BidResponse.model_validate(data): fails when a required field is missing,
\* keeps the fields the model declares and drops every other key.
ModelValidates(data) == BidResponseRequired \subseteq DOMAIN data

BidResponseOf(data) == [f \in (DOMAIN data) \cap BidResponseFields |-> data[f]]

\* BidResponse.dummy_response(...)
DummyResponse(id, order_name, project_id, user_id, cluster_id, instance_quantity, instance_type_id, limit_price_cents) ==
    [id                |-> id,
     name              |-> order_name,
     cluster_id        |-> cluster_id,
     instance_quantity |-> instance_quantity,
     instance_type_id  |-> instance_type_id,
     limit_price_cents |-> limit_price_cents,
     project_id        |-> project_id,
     user_id           |-> user_id]

(***************************************************************************)
(* HTTPClient.request: what the caller of request() gets for the transport *)
(* outcome t, where handled_resp is the error handler's answer for t.       *)
(***************************************************************************)
NoHandler(response) == NoResp

ApiErrorMessage(response) == <<"API", "request", "failed">> \o response.body

HttpRequest(t, handled_resp) ==
    IF t.kind = "timeout"
    THEN Raise("TimeoutError", <<"Request", "timed", "out">>, "Timeout")
    ELSE IF t.kind = "connection_error"
    THEN Raise("NetworkError", <<"Network", "error", "occurred">>, "ConnectionError")
    ELSE IF t.kind = "request_exception"
    THEN Raise("APIError", <<"Request", "failed">>, "RequestException")
    ELSE IF t.status >= 400
    THEN IF handled_resp # NoResp
         THEN Return(handled_resp)
         ELSE IF t.status \in {401, 403}
         THEN Raise("AuthenticationError",
                    <<"Authentication", "token", "is", "invalid">>, "none")
         ELSE Raise("APIError", ApiErrorMessage(t), "none")
    ELSE Return(t)

(***************************************************************************)
(* BidService.place_bid                                                    *)
(***************************************************************************)
\* Variant: one fixed key stands in for a missing key.
IdempotencyKey_Fixed(idempotency_key, fresh) ==
    IF idempotency_key = NoKey THEN Uuid(0) ELSE idempotency_key

\* lines 413-414: the key sent with the request
IdempotencyKey(idempotency_key, fresh) ==
    IF idempotency_key = NoKey THEN fresh ELSE idempotency_key

\* Variant: the test is made against the capitalised wording.
IsDuplicateOrderText_CaseSensitive(error_str) ==
    /\ Contains(error_str, <<"Order", "named">>)
    /\ Contains(error_str, <<"already", "exists">>)

\* line 428: the textual test for a duplicate order
IsDuplicateOrderText(error_str) ==
    /\ Contains(error_str, <<"order", "named">>)
    /\ Contains(error_str, <<"already", "exists">>)

\* duplicate_bid_handler, closed over the payload of the request in flight
DuplicateBidHandler(response) ==
    IF response.status = 400 /\ IsDuplicateOrderText(Lower(response.body))
    THEN Response(200, TRUE, <<"OK">>,
                  DummyResponse(Uuid(nextUuid + 1),
                                req.payload.order_name,
                                req.payload.project_id,
                                "user1",
                                req.payload.cluster_id,
                                req.payload.instance_quantity,
                                req.payload.instance_type_id,
                                req.payload.limit_price_cents),
                  "dummy")
    ELSE NoResp

\* lines 456-473: request, parse_json, model_validate
PlaceBidOutcome(t) ==
    LET r == HttpRequest(t, DuplicateBidHandler(t)) IN
    IF r.kind = "raise" THEN r
    ELSE IF ~r.value.json
    THEN Raise("ValueError", <<"not", "json">>, "none")
    ELSE IF ~ModelValidates(r.value.data)
    THEN Raise("APIError", <<"Invalid", "JSON", "response", "for", "place_bid">>,
               "ValueError")
    ELSE Return(BidResponseOf(r.value.data))

\* FoundryClient.place_bid: calls FCPClient.place_bid and re-raises
FoundryPlaceBidOutcome(t) == PlaceBidOutcome(t)

\* Variant: submit lets the client's exception through.
SubmitOutcome_Reraise(t) == FoundryPlaceBidOutcome(t)

\* Variant: submit wraps only the transport taxonomy.
SubmitOutcome_OnlyRemote(t) ==
    LET r == FoundryPlaceBidOutcome(t) IN
    IF r.kind = "return" THEN r
    ELSE IF r.exc \in {"APIError", "AuthenticationError", "NetworkError", "TimeoutError"}
    THEN Raise("BidSubmissionError", <<"Bid", "submission", "failed">>, r.exc)
    ELSE r

(***************************************************************************)
(* BidSubmitter.submit: the client's Bid, or BidSubmissionError from any   *)
(* Exception of the client.                                                *)
(***************************************************************************)
SubmitOutcome(t) ==
    LET r == FoundryPlaceBidOutcome(t) IN
    IF r.kind = "return" THEN r
    ELSE Raise("BidSubmissionError", <<"Bid", "submission", "failed">>, r.exc)

\* Variant: cancel_bid has no special case for "Bid not found".
CancelBidOutcome_NoNotFound(t) ==
    LET r == HttpRequest(t, NoHandler(t)) IN
    IF r.kind = "return" THEN Return(NoValue) ELSE r

(***************************************************************************)
(* BidService.cancel_bid                                                   *)
(***************************************************************************)
CancelBidOutcome(t) ==
    LET r == HttpRequest(t, NoHandler(t)) IN
    IF r.kind = "return" THEN Return(NoValue)
    ELSE IF r.exc = "APIError" /\ Contains(r.msg, <<"Bid", "not", "found">>)
    THEN Return(NoValue)
    ELSE r

(***************************************************************************)
(* The remote marketplace service, as the client's code knows it: it       *)
(* accepts the first order of a name and answers a later order of the same *)
(* name with 400 "Order named ... already exists"; it cancels a live bid   *)
(* and answers 404 "Bid not found" for any other bid id.                   *)
(***************************************************************************)
RemoteNames == {remoteOrders[i].name : i \in 1..Len(remoteOrders)}

RemoteBid(n, payload, key) ==
    [id                |-> BidId(n),
     name              |-> payload.order_name,
     cluster_id        |-> payload.cluster_id,
     instance_quantity |-> payload.instance_quantity,
     instance_type_id  |-> payload.instance_type_id,
     limit_price_cents |-> payload.limit_price_cents,
     project_id        |-> payload.project_id,
     user_id           |-> "user1",
     status            |-> "Open"]

\* The remote's state after request r arrives.
RemoteOrdersAfter(r) ==
    IF r.method = "POST" /\ r.payload.order_name \notin RemoteNames
    THEN Append(remoteOrders, RemoteBid(Len(remoteOrders) + 1, r.payload, r.key))
    ELSE remoteOrders

LiveBids == {n \in 1..Len(remoteOrders) : n \notin cancelled}

CancelledAfter(r) ==
    IF r.method = "DELETE" /\ r.bid_id \in LiveBids
    THEN cancelled \cup {r.bid_id}
    ELSE cancelled

\* The remote's reply to request r.
RemoteReply(r) ==
    IF r.method = "POST"
    THEN IF r.payload.order_name \notin RemoteNames
         THEN Response(200, TRUE, <<"OK">>,
                       RemoteBid(Len(remoteOrders) + 1, r.payload, r.key), "accepted")
         ELSE Response(400, TRUE, OrderNamedExistsBody, NoData, "duplicate")
    ELSE IF r.bid_id \in LiveBids
         THEN Response(200, TRUE, <<"OK">>, NoData, "cancelled")
         ELSE Response(404, TRUE, BidNotFoundBody, NoData, "not_found")

(***************************************************************************)
(* Strings and optional values of the matcher.  A string is a sequence of  *)
(* characters; an Optional value is None or Some(v).                       *)
(***************************************************************************)
None    == [isnone |-> TRUE]
Some(v) == [isnone |-> FALSE, v |-> v]

\* Python truthiness of an Optional[str]: `not x`
Falsy(o) == o.isnone \/ o.v = <<>>

\* `x or ""` and `x or 0`
OrEmpty(o) == IF o.isnone THEN <<>> ELSE o.v
OrZero(o)  == IF o.isnone THEN 0 ELSE o.v

LowerChar(c) ==
    CASE c = "A" -> "a"
      [] c = "I" -> "i"
      [] c = "B" -> "b"
      [] c = "S" -> "s"
      [] c = "P" -> "p"
      [] OTHER   -> c

\* str.lower()
LowerStr(str) == [i \in 1..Len(str) |-> LowerChar(str[i])]

IsSpace(c) == c = " "

\* str.strip()
RECURSIVE LStrip(_)
LStrip(str) ==
    IF str # <<>> /\ IsSpace(Head(str)) THEN LStrip(Tail(str)) ELSE str

RECURSIVE RStrip(_)
RStrip(str) ==
    IF str # <<>> /\ IsSpace(str[Len(str)])
    THEN RStrip(SubSeq(str, 1, Len(str) - 1)) ELSE str

Strip(str) == RStrip(LStrip(str))

\* \w of the regular expression
IsWordChar(c) == ~IsSpace(c) /\ c # "-"

IsWordAt(text, i) == i \in 1..Len(text) /\ IsWordChar(text[i])

\* \b between positions p and p+1 of text
AtWordBoundary(text, p) == IsWordAt(text, p) # IsWordAt(text, p + 1)

\* bool(re.search(rf"\b{re.escape(expected)}\b", actual))
ReSearchWord(expected, actual) ==
    \E i \in 0..(Len(actual) - Len(expected)) :
        /\ AtWordBoundary(actual, i)
        /\ \A j \in 1..Len(expected) : actual[i + j] = expected[j]
        /\ AtWordBoundary(actual, i + Len(expected))

(***************************************************************************)
(* AuctionMatcher                                                          *)
(***************************************************************************)
CheckResult(name, passed) == [name |-> name, passed |-> passed]

\* _check_gpu_type
CheckGpuType(c, a) ==
    IF Falsy(c.gpu_type) THEN CheckResult("GPU Type", TRUE)
    ELSE CheckResult("GPU Type",
                     ReSearchWord(LowerStr(Strip(c.gpu_type.v)),
                                  LowerStr(OrEmpty(a.gpu_type))))

\* Variant: the required count must be exceeded.
CheckNumGpus_Strict(c, a) ==
    IF c.num_gpus.isnone THEN CheckResult("Number of GPUs", TRUE)
    ELSE CheckResult("Number of GPUs", OrZero(a.inventory_quantity) > c.num_gpus.v)

\* _check_num_gpus
CheckNumGpus(c, a) ==
    IF c.num_gpus.isnone THEN CheckResult("Number of GPUs", TRUE)
    ELSE CheckResult("Number of GPUs", OrZero(a.inventory_quantity) >= c.num_gpus.v)

\* _check_internode_interconnect
CheckInternodeInterconnect(c, a) ==
    IF Falsy(c.internode_interconnect) THEN CheckResult("Inter-node Interconnect", TRUE)
    ELSE CheckResult("Inter-node Interconnect",
                     LowerStr(OrEmpty(a.internode_interconnect))
                        = LowerStr(c.internode_interconnect.v))

\* _check_intranode_interconnect
CheckIntranodeInterconnect(c, a) ==
    IF Falsy(c.intranode_interconnect) THEN CheckResult("Intra-node Interconnect", TRUE)
    ELSE CheckResult("Intra-node Interconnect",
                     LowerStr(OrEmpty(a.intranode_interconnect))
                        = LowerStr(c.intranode_interconnect.v))

\* _check_fcp_instance
CheckFcpInstance(c, a) ==
    IF Falsy(c.fcp_instance) THEN CheckResult("FCP Instance", TRUE)
    ELSE CheckResult("FCP Instance", a.fcp_instance = c.fcp_instance)

\* matches, lines 90-96
CheckResults(c, a) ==
    <<CheckGpuType(c, a), CheckNumGpus(c, a), CheckInternodeInterconnect(c, a),
      CheckIntranodeInterconnect(c, a), CheckFcpInstance(c, a)>>

NotPassed(res) == ~res.passed

\* matches, line 99
FailingChecks(results) == SelectSeq(results, NotPassed)

\* matches, lines 101-114
Matches(c, a) == FailingChecks(CheckResults(c, a)) = <<>>

NoAuction ==
    [gpu_type |-> None, inventory_quantity |-> None, internode_interconnect |-> None,
     intranode_interconnect |-> None, fcp_instance |-> None]

NoCriteria ==
    [gpu_type |-> None, num_gpus |-> None, internode_interconnect |-> None,
     intranode_interconnect |-> None, fcp_instance |-> None]

(***************************************************************************)
(* The parts of the state a specification does not use stay as they are    *)
(* before any call.                                                        *)
(***************************************************************************)
BidIdle ==
    /\ remoteOrders = <<>>
    /\ cancelled = {}
    /\ requests = <<>>
    /\ keysSent = {}
    /\ nsent = 0
    /\ nextUuid = 0
    /\ pc = "idle"
    /\ call = NoCall
    /\ req = NoReq
    /\ resp = NoResp
    /\ result = NoResult
    /\ remaining = 0
    /\ chunk_index = 0
    /\ bids_submitted = <<>>

MatchIdle ==
    /\ auction = NoAuction
    /\ criteria = NoCriteria
    /\ check_results = <<>>
    /\ matched = NoResult

FindIdle ==
    /\ auctions = <<>>
    /\ matching_auctions = <<>>
    /\ find_i = 0
    /\ find_pc = "idle"

FetchIdle ==
    /\ fetch_args = [project_id |-> None, local_catalog_path |-> None]
    /\ files = [explicit |-> "missing", default |-> "missing"]
    /\ catalog = <<>>
    /\ live = NoResult
    /\ get_auctions_calls = 0
    /\ fetch_pc = "idle"
    /\ auctions_from_foundry = <<>>
    /\ auctions_from_local = <<>>
    /\ fetched = NoResult
    /\ enriched_again = NoResult

NoPayload == [instance_quantity |-> 0, limit_price_cents |-> 0]

RunIdle ==
    /\ run_config = [none |-> TRUE]
    /\ run_pc = "idle"
    /\ stages = <<>>
    /\ run_result = NoResult
    /\ failed_stage = "none"
    /\ run_limit_price = 0
    /\ run_matching = <<>>
    /\ bid_payload = NoPayload
    /\ bids_placed = <<>>

DriverIdle ==
    /\ stale_disk = FALSE
    /\ status_code_exposed = FALSE
    /\ attempts = 0
    /\ first_failure = NoResult
    /\ disk_deleted = FALSE
    /\ driver_pc = "idle"
    /\ driver_result = NoResult

HttpIdle ==
    /\ http_call = [none |-> TRUE]
    /\ transport = [none |-> TRUE]
    /\ http_attempts = 0
    /\ session_outcome = NoResp
    /\ http_pc = "idle"
    /\ http_result = NoResult

ThreadsIdle == threads = <<>>

LoadIdle ==
    /\ raw_data = <<>>
    /\ load_i = 0
    /\ all_auctions = <<>>
    /\ load_result = NoResult

EngineIdle ==
    /\ chunked_engine = [owner |-> 0, customizer |-> "none"]
    /\ callers = <<>>

OtherIdle == HttpIdle /\ ThreadsIdle /\ LoadIdle /\ EngineIdle

RestIdle == FindIdle /\ FetchIdle /\ RunIdle /\ DriverIdle /\ OtherIdle

(***************************************************************************)
(* Initial state: nothing placed, no call in progress.                     *)
(***************************************************************************)
Init ==
    /\ remoteOrders = <<>>
    /\ cancelled = {}
    /\ requests = <<>>
    /\ keysSent = {}
    /\ nsent = 0
    /\ nextUuid = 0
    /\ pc = "idle"
    /\ call = NoCall
    /\ req = NoReq
    /\ resp = NoResp
    /\ result = NoResult
    /\ remaining = 0
    /\ chunk_index = 0
    /\ bids_submitted = <<>>
    /\ auction = NoAuction
    /\ criteria = NoCriteria
    /\ check_results = <<>>
    /\ matched = NoResult
    /\ RestIdle

(***************************************************************************)
(* Sending.  BidService.place_bid lines 413-418 and 456: draw a key when   *)
(* none was given and send the POST.                                       *)
(***************************************************************************)
SendPlaceBid(kind, payload, idempotency_key) ==
    LET key == IdempotencyKey(idempotency_key, Uuid(nextUuid + 1))
        r   == [method |-> "POST", payload |-> payload, key |-> key, bid_id |-> 0]
    IN  /\ req' = r
        /\ requests' = Append(IF pc = "idle" THEN <<>> ELSE requests, r)
        /\ keysSent' = IF kind = "submit"
                       THEN keysSent \cup {<<kind, payload.order_name, key>>}
                       ELSE keysSent
        /\ nsent' = nsent + 1
        /\ nextUuid' = IF idempotency_key = NoKey THEN nextUuid + 1 ELSE nextUuid
        /\ resp' = NoResp
        /\ pc' = "sent"

\* A caller calls FCPClient.place_bid(payload, idempotency_key) directly.
CallPlaceBid ==
    /\ pc = "idle"
    /\ nsent < MaxRequests
    /\ \E base \in Bases, k \in {NoKey, CallerKey} :
          /\ call' = [NoCall EXCEPT !.kind = "place", !.base = base, !.quantity = 1,
                                    !.first = nsent + 1,
                                    !.orders_before = Len(remoteOrders), !.key = k]
          /\ SendPlaceBid("place", Payload(PlainName(base), 1, <<"base", 0>>), k)
    /\ result' = NoResult
    /\ UNCHANGED <<remoteOrders, cancelled, remaining, chunk_index, bids_submitted>>
    /\ UNCHANGED <<matchVars, restVars>>

\* A caller calls BidSubmitter.submit(project_id, payload); the submitter calls
\* FoundryClient.place_bid, which calls FCPClient.place_bid(updated_payload).
CallSubmit ==
    /\ pc = "idle"
    /\ nsent < MaxRequests
    /\ \E base \in Bases :
          /\ call' = [NoCall EXCEPT !.kind = "submit", !.base = base, !.quantity = 1,
                                    !.first = nsent + 1,
                                 !.orders_before = Len(remoteOrders)]
          /\ SendPlaceBid("submit", Payload(PlainName(base), 1, <<"base", 0>>), NoKey)
    /\ result' = NoResult
    /\ UNCHANGED <<remoteOrders, cancelled, remaining, chunk_index, bids_submitted>>
    /\ UNCHANGED <<matchVars, restVars>>

\* A caller calls cancel_bid(project_id, bid_id): BidManager.cancel_bid,
\* FoundryClient.cancel_bid, BidService.cancel_bid line 490.
CallCancelBid ==
    /\ pc = "idle"
    /\ nsent < MaxRequests
    /\ \E id \in 1..(Len(remoteOrders) + 1) :
          /\ call' = [NoCall EXCEPT !.kind = "cancel", !.bid_id = id,
                                    !.first = nsent + 1,
                                 !.orders_before = Len(remoteOrders)]
          /\ req' = [method |-> "DELETE",
                     payload |-> Payload(PlainName(NoValue), 0, <<"base", 0>>),
                     key |-> NoKey, bid_id |-> id]
    /\ requests' = <<req'>>
    /\ nsent' = nsent + 1
    /\ resp' = NoResp
    /\ result' = NoResult
    /\ pc' = "sent"
    /\ UNCHANGED <<remoteOrders, cancelled, keysSent, nextUuid, remaining,
                   chunk_index, bids_submitted>>
    /\ UNCHANGED <<matchVars, restVars>>

(***************************************************************************)
(* ChunkedBidEngine.submit_chunks                                          *)
(***************************************************************************)
Min(a, b) == IF a < b THEN a ELSE b

\* Variant: the chunk is not clipped to what remains.
CurrentChunk_NoMin(chunk_size, rem) == chunk_size

\* line 249
CurrentChunk(chunk_size, rem) == Min(chunk_size, rem)

\* lines 252-257: the script of a chunk.  The customizer "ok" returns a script
\* carrying the chunk index, "raises" is a callback that raises from the
\* second chunk on.
CustomizerRaises(customizer, index) == customizer = "raises" /\ index >= 2

ChunkScript(customizer, index) ==
    IF customizer = "none" THEN <<"base", 0>> ELSE <<"custom", index>>

\* A caller calls submit_chunks(project_id, params); PartialBidParams has
\* instance_quantity > 0 and chunk_size > 0 (lines 109, 117).
CallSubmitChunks ==
    /\ pc = "idle"
    /\ nsent < MaxRequests
    /\ \E base \in Bases, q \in 1..MaxQuantity, c \in 1..MaxChunkSize,
          cust \in {"none", "ok", "raises"} :
          call' = [NoCall EXCEPT !.kind = "chunks", !.base = base, !.quantity = q,
                                 !.chunk_size = c, !.customizer = cust,
                                 !.first = nsent + 1,
                                 !.orders_before = Len(remoteOrders)]
    /\ bids_submitted' = <<>>
    /\ remaining' = call'.quantity
    /\ chunk_index' = 1
    /\ result' = NoResult
    /\ req' = NoReq
    /\ resp' = NoResp
    /\ requests' = <<>>
    /\ pc' = "loop"
    /\ UNCHANGED <<remoteOrders, cancelled, keysSent, nsent, nextUuid>>
    /\ UNCHANGED <<matchVars, restVars>>

\* lines 248-279: one more chunk is built and handed to the submitter.
ChunkSubmit ==
    /\ pc = "loop"
    /\ remaining > 0
    /\ ~CustomizerRaises(call.customizer, chunk_index)
    /\ nsent < MaxRequests
    /\ SendPlaceBid("chunks",
                    [Payload(ChunkOrderName(call.base, chunk_index),
                             CurrentChunk(call.chunk_size, remaining),
                             ChunkScript(call.customizer, chunk_index))
                        EXCEPT !.project_id = "proj1"], NoKey)
    /\ UNCHANGED <<remoteOrders, cancelled, call, result, remaining, chunk_index,
                   bids_submitted>>
    /\ UNCHANGED <<matchVars, restVars>>

\* lines 252-255: the customizer raises; nothing in submit_chunks catches it.
ChunkCustomizerRaises ==
    /\ pc = "loop"
    /\ remaining > 0
    /\ CustomizerRaises(call.customizer, chunk_index)
    /\ result' = Raise("RuntimeError", <<"customizer", "failed">>, "none")
    /\ pc' = "done"
    /\ UNCHANGED <<remoteOrders, cancelled, requests, keysSent, nsent, nextUuid, call,
                   req, resp,
                   remaining, chunk_index, bids_submitted>>
    /\ UNCHANGED <<matchVars, restVars>>

\* lines 248, 291-296: the loop ends and the bids are returned.
ChunksReturn ==
    /\ pc = "loop"
    /\ ~(remaining > 0)
    /\ result' = Return(bids_submitted)
    /\ pc' = "done"
    /\ UNCHANGED <<remoteOrders, cancelled, requests, keysSent, nsent, nextUuid, call,
                   req, resp,
                   remaining, chunk_index, bids_submitted>>
    /\ UNCHANGED <<matchVars, restVars>>

(***************************************************************************)
(* The transport: what session.request gives for the request in flight.    *)
(***************************************************************************)
Deliver(t) ==
    /\ resp' = t
    /\ pc' = "replied"
    /\ UNCHANGED <<requests, keysSent, nsent, nextUuid, call, req, result,
                   remaining, chunk_index, bids_submitted>>

\* The request arrives and the remote's reply comes back.
RemoteAnswers ==
    /\ pc = "sent"
    /\ remoteOrders' = RemoteOrdersAfter(req)
    /\ cancelled' = CancelledAfter(req)
    /\ Deliver(RemoteReply(req))
    /\ UNCHANGED <<matchVars, restVars>>

\* The request arrives, the remote acts on it, and the reply does not come
\* back in time (requests.exceptions.Timeout).
ReplyLost ==
    /\ pc = "sent"
    /\ remoteOrders' = RemoteOrdersAfter(req)
    /\ cancelled' = CancelledAfter(req)
    /\ Deliver([kind |-> "timeout", origin |-> "reply_lost"])
    /\ UNCHANGED <<matchVars, restVars>>

\* The request never arrives (requests.exceptions.ConnectionError).
ConnectionFails ==
    /\ pc = "sent"
    /\ UNCHANGED <<remoteOrders, cancelled>>
    /\ Deliver([kind |-> "connection_error", origin |-> "connection_error"])
    /\ UNCHANGED <<matchVars, restVars>>

\* The remote fails without acting on the request: 500, or 401.
RemoteFails ==
    /\ pc = "sent"
    /\ UNCHANGED <<remoteOrders, cancelled>>
    /\ \E t \in {Response(500, TRUE, ServerErrorBody, NoData, "server_error"),
                 Response(401, TRUE, UnauthorizedBody, NoData, "unauthorized")} :
          Deliver(t)
    /\ UNCHANGED <<matchVars, restVars>>

\* The remote acts on a POST and its 200 reply is unusable: the body is not
\* JSON, or it is JSON that lacks the bid's id.
ReplyUnusable ==
    /\ pc = "sent"
    /\ req.method = "POST"
    /\ remoteOrders' = RemoteOrdersAfter(req)
    /\ cancelled' = CancelledAfter(req)
    /\ \E t \in {Response(200, FALSE, <<"<html>">>, NoData, "not_json"),
                 Response(200, TRUE, <<"OK">>, [name |-> req.payload.order_name],
                          "no_id")} :
          Deliver(t)
    /\ UNCHANGED <<matchVars, restVars>>

\* The session of tests/test_clients/test_fcp_client.py test_place_bid_duplicate:
\* a POST is answered 400 {"error": "Bid already exists"}.
BidExistsAnswer ==
    /\ pc = "sent"
    /\ req.method = "POST"
    /\ UNCHANGED <<remoteOrders, cancelled>>
    /\ Deliver(Response(400, TRUE, BidExistsBody, NoData, "bid_exists"))
    /\ UNCHANGED <<matchVars, restVars>>

(***************************************************************************)
(* The client receives the transport's outcome and the call finishes.      *)
(***************************************************************************)
\* uuid4() values drawn while the reply is handled: the id of a dummy response
UuidsAfterReply(t) ==
    IF t.kind = "response" /\ t.status >= 400 /\ DuplicateBidHandler(t) # NoResp
    THEN nextUuid + 1 ELSE nextUuid

\* FCPClient.place_bid returns or raises.
PlaceBidCompletes ==
    /\ pc = "replied"
    /\ call.kind = "place"
    /\ result' = PlaceBidOutcome(resp)
    /\ nextUuid' = UuidsAfterReply(resp)
    /\ pc' = "done"
    /\ UNCHANGED <<remoteOrders, cancelled, requests, keysSent, nsent, call, req, resp, remaining,
                   chunk_index, bids_submitted>>
    /\ UNCHANGED <<matchVars, restVars>>

\* BidSubmitter.submit returns or raises.
SubmitCompletes ==
    /\ pc = "replied"
    /\ call.kind = "submit"
    /\ result' = SubmitOutcome(resp)
    /\ nextUuid' = UuidsAfterReply(resp)
    /\ pc' = "done"
    /\ UNCHANGED <<remoteOrders, cancelled, requests, keysSent, nsent, call, req, resp, remaining,
                   chunk_index, bids_submitted>>
    /\ UNCHANGED <<matchVars, restVars>>

\* Variant: the loop forgets to take the chunk off remaining.
ChunkSubmitted_NoDecrease ==
    /\ pc = "replied"
    /\ call.kind = "chunks"
    /\ SubmitOutcome(resp).kind = "return"
    /\ bids_submitted' = Append(bids_submitted, SubmitOutcome(resp).value)
    /\ chunk_index' = chunk_index + 1
    /\ nextUuid' = UuidsAfterReply(resp)
    /\ pc' = "loop"
    /\ UNCHANGED <<remoteOrders, cancelled, requests, keysSent, nsent, call, req, resp,
                   result, remaining>>
    /\ UNCHANGED <<matchVars, restVars>>

\* submit_chunks lines 279-289: the submitter returned the chunk's bid.
ChunkSubmitted ==
    /\ pc = "replied"
    /\ call.kind = "chunks"
    /\ SubmitOutcome(resp).kind = "return"
    /\ bids_submitted' = Append(bids_submitted, SubmitOutcome(resp).value)
    /\ remaining' = remaining - CurrentChunk(call.chunk_size, remaining)
    /\ chunk_index' = chunk_index + 1
    /\ nextUuid' = UuidsAfterReply(resp)
    /\ pc' = "loop"
    /\ UNCHANGED <<remoteOrders, cancelled, requests, keysSent, nsent, call, req, resp, result>>
    /\ UNCHANGED <<matchVars, restVars>>

\* Variant: a failed chunk is skipped and the loop goes on.
ChunkSubmitFails_Skip ==
    /\ pc = "replied"
    /\ call.kind = "chunks"
    /\ SubmitOutcome(resp).kind = "raise"
    /\ remaining' = remaining - CurrentChunk(call.chunk_size, remaining)
    /\ chunk_index' = chunk_index + 1
    /\ nextUuid' = UuidsAfterReply(resp)
    /\ pc' = "loop"
    /\ UNCHANGED <<remoteOrders, cancelled, requests, keysSent, nsent, call, req, resp,
                   result, bids_submitted>>
    /\ UNCHANGED <<matchVars, restVars>>

\* submit_chunks line 279: the submitter raised; submit_chunks has no handler.
ChunkSubmitFails ==
    /\ pc = "replied"
    /\ call.kind = "chunks"
    /\ SubmitOutcome(resp).kind = "raise"
    /\ result' = SubmitOutcome(resp)
    /\ nextUuid' = UuidsAfterReply(resp)
    /\ pc' = "done"
    /\ UNCHANGED <<remoteOrders, cancelled, requests, keysSent, nsent, call, req, resp, remaining,
                   chunk_index, bids_submitted>>
    /\ UNCHANGED <<matchVars, restVars>>

\* cancel_bid returns or raises.
CancelBidCompletes ==
    /\ pc = "replied"
    /\ call.kind = "cancel"
    /\ result' = CancelBidOutcome(resp)
    /\ pc' = "done"
    /\ UNCHANGED <<remoteOrders, cancelled, requests, keysSent, nsent, nextUuid, call,
                   req, resp,
                   remaining, chunk_index, bids_submitted>>
    /\ UNCHANGED <<matchVars, restVars>>

\* The caller has its result and is free to make the next call.
NextCall ==
    /\ pc = "done"
    /\ pc' = "idle"
    /\ call' = NoCall
    /\ req' = NoReq
    /\ resp' = NoResp
    /\ result' = NoResult
    /\ remaining' = 0
    /\ chunk_index' = 0
    /\ bids_submitted' = <<>>
    /\ requests' = <<>>
    /\ UNCHANGED <<remoteOrders, cancelled, keysSent, nsent, nextUuid>>
    /\ UNCHANGED <<matchVars, restVars>>

Next ==
    \/ CallPlaceBid
    \/ CallSubmit
    \/ CallCancelBid
    \/ CallSubmitChunks
    \/ ChunkSubmit
    \/ ChunkCustomizerRaises
    \/ ChunksReturn
    \/ RemoteAnswers
    \/ ReplyLost
    \/ ConnectionFails
    \/ RemoteFails
    \/ ReplyUnusable
    \/ BidExistsAnswer
    \/ PlaceBidCompletes
    \/ SubmitCompletes
    \/ ChunkSubmitted
    \/ ChunkSubmitFails
    \/ CancelBidCompletes
    \/ NextCall

Spec == Init /\ [][Next]_vars

(***************************************************************************)
(* The matcher applied to one auction under one criteria object.           *)
(***************************************************************************)
GpuTypeCriteria ==
    {None, Some(<<>>), Some(<<"A", "1">>), Some(<<"a", "1">>), Some(<<" ", "A", "1">>),
     Some(<<"1">>)}
GpuTypeValues ==
    {None, Some(<<"a", "1">>), Some(<<"x", " ", "A", "1">>), Some(<<"A", "1", "1">>)}
NumGpusCriteria == {None, Some(-1), Some(0), Some(2)}
InventoryValues == {None, Some(0), Some(2)}
InternodeCriteria == {None, Some(<<"I", "B">>), Some(<<"i", "b">>)}
InternodeValues   == {None, Some(<<"I", "B">>), Some(<<"x">>)}
IntranodeCriteria == {None, Some(<<"S">>), Some(<<"s">>)}
IntranodeValues   == {None, Some(<<"S">>), Some(<<"P">>)}
FcpCriteria == {None, Some(<<>>), Some(<<"a", "4">>), Some(<<"A", "4">>)}
FcpValues   == {None, Some(<<"a", "4">>), Some(<<"A", "4">>)}

Auctions ==
    [gpu_type : GpuTypeValues, inventory_quantity : InventoryValues,
     internode_interconnect : InternodeValues,
     intranode_interconnect : IntranodeValues, fcp_instance : FcpValues]

CriteriaValues ==
    [gpu_type : GpuTypeCriteria, num_gpus : NumGpusCriteria,
     internode_interconnect : InternodeCriteria,
     intranode_interconnect : IntranodeCriteria, fcp_instance : FcpCriteria]

MatchInit ==
    /\ remoteOrders = <<>>
    /\ cancelled = {}
    /\ requests = <<>>
    /\ keysSent = {}
    /\ nsent = 0
    /\ nextUuid = 0
    /\ pc = "idle"
    /\ call = NoCall
    /\ req = NoReq
    /\ resp = NoResp
    /\ result = NoResult
    /\ remaining = 0
    /\ chunk_index = 0
    /\ bids_submitted = <<>>
    /\ auction \in Auctions
    /\ criteria \in CriteriaValues
    /\ check_results = <<>>
    /\ matched = NoResult
    /\ RestIdle

\* AuctionMatcher(criteria).matches(auction)
CallMatches ==
    /\ matched = NoResult
    /\ check_results' = CheckResults(criteria, auction)
    /\ matched' = Return(Matches(criteria, auction))
    /\ UNCHANGED <<auction, criteria>>
    /\ UNCHANGED bidVars
    /\ UNCHANGED restVars

MatchNext == CallMatches

SpecMatch == MatchInit /\ [][MatchNext]_vars

(***************************************************************************)
(* AuctionFinder.find_matching_auctions: the list comprehension over the   *)
(* auctions argument, one element per step.                                *)
(***************************************************************************)
NvidiaA100 == <<"N", "V", "I", "D", "I", "A", " ", "A", "1", "0", "0">>
NvidiaH100 == <<"N", "V", "I", "D", "I", "A", " ", "H", "1", "0", "0">>
NvidiaV100 == <<"N", "V", "I", "D", "I", "A", " ", "V", "1", "0", "0">>

SampleAuction(id, gpu_type, quantity, intranode, internode) ==
    [id |-> id, gpu_type |-> Some(gpu_type), inventory_quantity |-> Some(quantity),
     num_gpus |-> Some(quantity), intranode_interconnect |-> Some(intranode),
     internode_interconnect |-> Some(internode), fcp_instance |-> None]

Auction1 == SampleAuction("auction1", NvidiaA100, 8, <<"S", "X", "M">>, <<"3", "2">>)
Auction2 == SampleAuction("auction2", NvidiaA100, 4, <<"P", "C", "I", "e">>, <<"1", "6">>)
Auction3 == SampleAuction("auction3", NvidiaH100, 8, <<"S", "X", "M">>, <<"3", "2">>)
Auction4 == SampleAuction("auction4", NvidiaV100, 16, <<"P", "C", "I", "e">>, <<"1", "6">>)

\* An auction that has an id and nothing else.
EmptyAuction ==
    [id |-> "empty_auction", gpu_type |-> None, inventory_quantity |-> None,
     num_gpus |-> None, intranode_interconnect |-> None,
     internode_interconnect |-> None, fcp_instance |-> None]

SampleAuctions == {Auction1, Auction2, Auction3, Auction4, EmptyAuction}

SampleAuctionLists ==
    UNION {[1..n -> SampleAuctions] : n \in 0..MaxAuctions}

FindCriteria ==
    {NoCriteria,
     [NoCriteria EXCEPT !.gpu_type = Some(<<"A", "1", "0", "0">>), !.num_gpus = Some(4)],
     [NoCriteria EXCEPT !.gpu_type = Some(<<"a", "1", "0", "0">>), !.num_gpus = Some(8)],
     [NoCriteria EXCEPT !.gpu_type = Some(<<"A", "1", "0">>)],
     [NoCriteria EXCEPT !.num_gpus = Some(16)],
     [NoCriteria EXCEPT !.intranode_interconnect = Some(<<"s", "x", "m">>)]}

FindInit ==
    /\ BidIdle
    /\ auction = NoAuction
    /\ check_results = <<>>
    /\ matched = NoResult
    /\ criteria \in FindCriteria
    /\ auctions \in SampleAuctionLists
    /\ matching_auctions = <<>>
    /\ find_i = 0
    /\ find_pc = "idle"
    /\ FetchIdle
    /\ RunIdle
    /\ DriverIdle
    /\ OtherIdle

\* Variant: a kept element is put in front of the ones kept before.
ComprehensionStep_Prepend(acc, a, keep) == IF keep THEN <<a>> \o acc ELSE acc

\* lines 382-384: `[auction for auction in auctions if matcher.matches(auction)]`,
\* one element of the comprehension
ComprehensionStep(acc, a, keep) == IF keep THEN Append(acc, a) ELSE acc

\* lines 377-382: the call starts and the matcher is built from the criteria.
CallFindMatchingAuctions ==
    /\ find_pc = "idle"
    /\ matching_auctions' = <<>>
    /\ find_i' = 1
    /\ find_pc' = "loop"
    /\ UNCHANGED <<auctions, notFindVars>>

\* lines 382-384: the next auction is tested and kept or dropped.
FindStep ==
    /\ find_pc = "loop"
    /\ find_i <= Len(auctions)
    /\ matching_auctions' =
          ComprehensionStep(matching_auctions, auctions[find_i],
                            Matches(criteria, auctions[find_i]))
    /\ find_i' = find_i + 1
    /\ UNCHANGED <<auctions, find_pc, notFindVars>>

\* lines 386-391: the list is returned.
FindReturn ==
    /\ find_pc = "loop"
    /\ find_i > Len(auctions)
    /\ find_pc' = "done"
    /\ UNCHANGED <<auctions, matching_auctions, find_i, notFindVars>>

FindNext ==
    \/ CallFindMatchingAuctions
    \/ FindStep
    \/ FindReturn

SpecFind == FindInit /\ [][FindNext]_vars

(***************************************************************************)
(* AuctionFinder.fetch_auctions and the enrichment merge.  An Auction has  *)
(* the twelve optional fields the merge names; a catalog file is missing,  *)
(* malformed (not YAML), or well-formed and holding the auctions `catalog`.*)
(***************************************************************************)
FetchAuction(instance_type_id, text, inventory_quantity, num_gpus, last_price) ==
    [cluster_id |-> text, gpu_type |-> text, inventory_quantity |-> inventory_quantity,
     num_gpus |-> num_gpus, intranode_interconnect |-> text,
     internode_interconnect |-> text, fcp_instance |-> text,
     instance_type_id |-> instance_type_id, last_price |-> last_price,
     region |-> text, region_id |-> text, resource_specification_id |-> text]

LiveAuctions ==
    {FetchAuction(None, Some(<<"L">>), Some(3), Some(4), Some(7)),
     FetchAuction(Some(<<"i", "1">>), Some(<<"L">>), Some(3), Some(4), Some(7)),
     FetchAuction(Some(<<"i", "1">>), None, None, None, None),
     FetchAuction(Some(<<"i", "1">>), Some(<<>>), Some(0), Some(0), Some(0)),
     FetchAuction(Some(<<"i", "2">>), None, Some(3), None, Some(7))}

CatalogAuctions ==
    {FetchAuction(Some(<<"i", "1">>), Some(<<"C">>), Some(5), Some(8), Some(9)),
     FetchAuction(Some(<<"i", "1">>), None, Some(5), Some(0), None),
     FetchAuction(None, Some(<<"C">>), Some(5), Some(8), Some(9))}

LiveLists == UNION {[1..n -> LiveAuctions] : n \in 0..MaxLive}
CatalogLists == UNION {[1..n -> CatalogAuctions] : n \in 0..MaxCatalog}

\* Python truthiness of an Optional number, and `a or b`
FalsyNum(o) == o.isnone \/ o.v = 0
OrStr(a, b) == IF Falsy(a) THEN b ELSE a
OrNum(a, b) == IF FalsyNum(a) THEN b ELSE a

\* lines 586-589 and 599: the catalog auction the dict holds for an
\* instance_type_id (the last one of that id), or None
LocalMatch(local, instance_type_id) ==
    LET S == {i \in 1..Len(local) :
                 /\ ~Falsy(local[i].instance_type_id)
                 /\ local[i].instance_type_id = instance_type_id}
    IN  IF S = {} THEN None
        ELSE Some(local[CHOOSE i \in S : \A j \in S : j <= i])

\* lines 606-632: the merged Auction
MergedAuction(f, l) ==
    [cluster_id |-> OrStr(f.cluster_id, l.cluster_id),
     gpu_type |-> OrStr(f.gpu_type, l.gpu_type),
     inventory_quantity |->
         IF ~f.inventory_quantity.isnone THEN f.inventory_quantity
         ELSE l.inventory_quantity,
     num_gpus |-> OrNum(f.num_gpus, l.num_gpus),
     intranode_interconnect |-> OrStr(f.intranode_interconnect, l.intranode_interconnect),
     internode_interconnect |-> OrStr(f.internode_interconnect, l.internode_interconnect),
     fcp_instance |-> OrStr(f.fcp_instance, l.fcp_instance),
     instance_type_id |-> f.instance_type_id,
     last_price |-> OrNum(f.last_price, l.last_price),
     region |-> OrStr(f.region, l.region),
     region_id |-> OrStr(f.region_id, l.region_id),
     resource_specification_id |->
         OrStr(f.resource_specification_id, l.resource_specification_id)]

\* Variant: a live auction without a catalog match is left out.
EnrichedEntries_DropUnmatched(f, local) ==
    IF Falsy(f.instance_type_id) THEN <<f>>
    ELSE IF LocalMatch(local, f.instance_type_id) = None THEN <<>>
    ELSE <<MergedAuction(f, LocalMatch(local, f.instance_type_id).v)>>

\* Variant: the branch without instance_type_id lacks its `continue`, so the
\* auction is appended again by the branch without a catalog match.
EnrichedEntries_NoContinue(f, local) ==
    IF Falsy(f.instance_type_id) THEN <<f, f>>
    ELSE IF LocalMatch(local, f.instance_type_id) = None THEN <<f>>
    ELSE <<MergedAuction(f, LocalMatch(local, f.instance_type_id).v)>>

\* lines 593-633: what one iteration of the loop appends to enriched_list
EnrichedEntries(f, local) ==
    IF Falsy(f.instance_type_id) THEN <<f>>
    ELSE IF LocalMatch(local, f.instance_type_id) = None THEN <<f>>
    ELSE <<MergedAuction(f, LocalMatch(local, f.instance_type_id).v)>>

\* _enrich_auctions_with_catalog_data
RECURSIVE EnrichAuctions(_, _)
EnrichAuctions(foundry_auctions, local) ==
    IF foundry_auctions = <<>> THEN <<>>
    ELSE EnrichedEntries(Head(foundry_auctions), local)
             \o EnrichAuctions(Tail(foundry_auctions), local)

\* _load_auctions_from_local_catalog for a file in the given state
LoadCatalog(state) ==
    IF state = "missing"
    THEN Raise("AuctionCatalogError", <<"Unable", "to", "read", "local", "catalog", "file">>,
               "FileNotFoundError")
    ELSE IF state = "malformed"
    THEN Raise("YAMLError", <<"not", "YAML">>, "none")
    ELSE Return(catalog)

FileStates == {"missing", "malformed", "ok"}

FetchInit ==
    /\ BidIdle
    /\ MatchIdle
    /\ FindIdle
    /\ RunIdle
    /\ DriverIdle
    /\ OtherIdle
    /\ fetch_args \in [project_id : {None, Some(<<>>), Some(<<"p", "1">>)},
                       local_catalog_path : {None, Some(<<"c">>)}]
    /\ files \in [explicit : FileStates, default : FileStates]
    /\ fetch_args.local_catalog_path = None => files.explicit = "missing"
    /\ fetch_args.local_catalog_path # None => files.default = "missing"
    /\ catalog \in CatalogLists
    /\ (files.explicit # "ok" /\ files.default # "ok") => catalog = <<>>
    /\ live \in {Raise("APIError", ServerErrorBody, "none")}
                   \cup {Return(l) : l \in LiveLists}
    /\ Falsy(fetch_args.project_id) => live = Return(<<>>)
    /\ get_auctions_calls = 0
    /\ fetch_pc = "idle"
    /\ auctions_from_foundry = <<>>
    /\ auctions_from_local = <<>>
    /\ fetched = NoResult
    /\ enriched_again = NoResult

\* lines 305-306
CallFetchAuctions ==
    /\ fetch_pc = "idle"
    /\ auctions_from_foundry' = <<>>
    /\ auctions_from_local' = <<>>
    /\ fetch_pc' = "foundry"
    /\ UNCHANGED <<fetch_args, files, catalog, live, get_auctions_calls, fetched,
                   enriched_again, notFetchVars>>

\* lines 309-318: get_auctions is called when project_id is truthy; what it
\* raises propagates.
FetchFromFoundry ==
    /\ fetch_pc = "foundry"
    /\ IF Falsy(fetch_args.project_id)
       THEN /\ fetch_pc' = "local"
            /\ UNCHANGED <<get_auctions_calls, auctions_from_foundry, fetched>>
       ELSE /\ get_auctions_calls' = get_auctions_calls + 1
            /\ IF live.kind = "raise"
               THEN /\ fetched' = live
                    /\ fetch_pc' = "done"
                    /\ UNCHANGED auctions_from_foundry
               ELSE /\ auctions_from_foundry' = live.value
                    /\ fetch_pc' = "local"
                    /\ UNCHANGED fetched
    /\ UNCHANGED <<fetch_args, files, catalog, live, auctions_from_local,
                   enriched_again, notFetchVars>>

\* Variant: only a catalog named by the caller is loaded.
CatalogToLoad_NoDefault ==
    IF fetch_args.local_catalog_path # None THEN "explicit" ELSE "none"

\* lines 321-343: which catalog file is loaded, if any
CatalogToLoad ==
    IF fetch_args.local_catalog_path # None THEN "explicit"
    ELSE IF files.default # "missing" THEN "default"
    ELSE "none"

\* lines 320-343
LoadLocalCatalog ==
    /\ fetch_pc = "local"
    /\ IF CatalogToLoad = "none"
       THEN /\ fetch_pc' = "merge"
            /\ UNCHANGED <<auctions_from_local, fetched>>
       ELSE IF LoadCatalog(files[CatalogToLoad]).kind = "raise"
       THEN /\ fetched' = LoadCatalog(files[CatalogToLoad])
            /\ fetch_pc' = "done"
            /\ UNCHANGED auctions_from_local
       ELSE /\ auctions_from_local' = LoadCatalog(files[CatalogToLoad]).value
            /\ fetch_pc' = "merge"
            /\ UNCHANGED fetched
    /\ UNCHANGED <<fetch_args, files, catalog, live, get_auctions_calls,
                   auctions_from_foundry, enriched_again, notFetchVars>>

\* lines 345-360
FetchResult(from_foundry, from_local) ==
    IF from_foundry # <<>> /\ from_local # <<>>
    THEN Return(EnrichAuctions(from_foundry, from_local))
    ELSE IF from_foundry # <<>> THEN Return(from_foundry)
    ELSE IF from_local # <<>> THEN Return(from_local)
    ELSE Raise("ValueError", <<"You", "must", "provide", "either">>, "none")

FetchReturns ==
    /\ fetch_pc = "merge"
    /\ fetched' = FetchResult(auctions_from_foundry, auctions_from_local)
    /\ fetch_pc' = "done"
    /\ UNCHANGED <<fetch_args, files, catalog, live, get_auctions_calls,
                   auctions_from_foundry, auctions_from_local, enriched_again,
                   notFetchVars>>

\* _enrich_auctions_with_catalog_data is applied to the list fetch_auctions
\* returned from it, with the same catalog auctions.
CallEnrichAgain ==
    /\ fetch_pc = "done"
    /\ fetched.kind = "return"
    /\ auctions_from_foundry # <<>>
    /\ auctions_from_local # <<>>
    /\ enriched_again' = Return(EnrichAuctions(fetched.value, auctions_from_local))
    /\ fetch_pc' = "again"
    /\ UNCHANGED <<fetch_args, files, catalog, live, get_auctions_calls,
                   auctions_from_foundry, auctions_from_local, fetched, notFetchVars>>

FetchNext ==
    \/ CallFetchAuctions
    \/ FetchFromFoundry
    \/ LoadLocalCatalog
    \/ FetchReturns
    \/ CallEnrichAgain

SpecFetch == FetchInit /\ [][FetchNext]_vars

(***************************************************************************)
(* BidManager.submit_bid                                                   *)
(***************************************************************************)
ParamFields == {"cluster_id", "instance_quantity", "instance_type_id",
                "limit_price_cents", "order_name", "ssh_key_id", "user_id"}

Defects ==
    {NoDefect, [field |-> "all", how |-> "None"], [field |-> "chunk_size", how |-> "falsy"]}
        \cup [field : ParamFields, how : {"None", "falsy"}]
        \cup [field : {"instance_quantity", "limit_price_cents"}, how : {"negative"}]

\* One keyword argument of the call: absent, falsy, negative, or the value.
Arg(defect, field, falsy, value) ==
    IF defect.field \in {field, "all"}
    THEN IF defect.how = "None" THEN None
         ELSE IF defect.how = "negative" THEN Some(-1) ELSE Some(falsy)
    ELSE Some(value)

\* The keyword arguments of submit_bid (lines 374-386).
SubmitBidArgs(base, q, c, defect) ==
    [cluster_id        |-> Arg(defect, "cluster_id", "", "cluster1"),
     instance_quantity |-> Arg(defect, "instance_quantity", 0, q),
     instance_type_id  |-> Arg(defect, "instance_type_id", "", "t1"),
     limit_price_cents |-> Arg(defect, "limit_price_cents", 0, 2000),
     order_name        |-> Arg(defect, "order_name", "", base),
     ssh_key_id        |-> Arg(defect, "ssh_key_id", "", "key1"),
     user_id           |-> Arg(defect, "user_id", "", "user1"),
     chunk_size        |-> IF defect.field = "chunk_size" THEN 0 ELSE c]

\* Python truthiness of an Optional[str] / Optional[int] argument.
TruthyStr(o) == ~o.isnone /\ o.v # ""
TruthyInt(o) == ~o.isnone /\ o.v # 0

\* Variant: ssh_key_id is left out of the completeness test.
SingleParamsComplete_NoSshKey(a) ==
    /\ TruthyStr(a.cluster_id)
    /\ TruthyInt(a.instance_quantity)
    /\ TruthyStr(a.instance_type_id)
    /\ TruthyInt(a.limit_price_cents)
    /\ TruthyStr(a.order_name)
    /\ TruthyStr(a.user_id)

\* lines 429-439: all([...]) over the seven parameters
SingleParamsComplete(a) ==
    /\ TruthyStr(a.cluster_id)
    /\ TruthyInt(a.instance_quantity)
    /\ TruthyStr(a.instance_type_id)
    /\ TruthyInt(a.limit_price_cents)
    /\ TruthyStr(a.order_name)
    /\ TruthyStr(a.ssh_key_id)
    /\ TruthyStr(a.user_id)

\* A required str field with min_length=1 / a required int field with gt=0.
MinLength1(o) == ~o.isnone /\ o.v # ""
Gt0(o) == ~o.isnone /\ o.v > 0

\* PartialBidParams (lines 108-117) validates.
PartialBidParamsValid(a) ==
    /\ MinLength1(a.cluster_id)
    /\ Gt0(a.instance_quantity)
    /\ MinLength1(a.instance_type_id)
    /\ Gt0(a.limit_price_cents)
    /\ MinLength1(a.order_name)
    /\ MinLength1(a.ssh_key_id)
    /\ MinLength1(a.user_id)
    /\ a.chunk_size > 0

\* BidPayload validates: its quantity and its price are strictly positive.
BidPayloadValid(instance_quantity, limit_price_cents) ==
    /\ instance_quantity > 0
    /\ limit_price_cents > 0

\* Variant: allow_partial_fulfillment is looked at before bid_payload.
SubmitBidDispatch_PartialFirst(has_payload, allow_partial, a) ==
    IF allow_partial
    THEN IF ~PartialBidParamsValid(a)
         THEN [to |-> "raise",
               result |-> Raise("ValueError",
                                <<"Invalid", "partial", "bid", "parameters">>,
                                "ValidationError")]
         ELSE [to |-> "chunks", result |-> NoResult]
    ELSE IF has_payload
    THEN [to |-> "single", result |-> NoResult]
    ELSE IF ~SingleParamsComplete(a)
    THEN [to |-> "raise",
          result |-> Raise("ValueError", <<"Missing", "required", "parameters">>,
                           "none")]
    ELSE [to |-> "single", result |-> NoResult]

\* lines 421-485: the mode submit_bid takes, or the exception it raises
\* before anything is submitted.
SubmitBidDispatch(has_payload, allow_partial, a) ==
    IF has_payload
    THEN [to |-> "single", result |-> NoResult]
    ELSE IF ~allow_partial
    THEN IF ~SingleParamsComplete(a)
         THEN [to |-> "raise",
               result |-> Raise("ValueError",
                                <<"Missing", "required", "parameters">>, "none")]
         ELSE IF ~BidPayloadValid(a.instance_quantity.v, a.limit_price_cents.v)
         THEN [to |-> "raise",
               result |-> Raise("ValidationError", <<"BidPayload">>, "none")]
         ELSE [to |-> "single", result |-> NoResult]
    ELSE IF ~PartialBidParamsValid(a)
    THEN [to |-> "raise",
          result |-> Raise("ValueError",
                           <<"Invalid", "partial", "bid", "parameters">>,
                           "ValidationError")]
    ELSE [to |-> "chunks", result |-> NoResult]

\* The calls of submit_bid a caller makes.  A payload comes without the
\* parameters, or with all of them when partial fulfillment is asked for; a
\* call that is not chunked, or that has a defect, leaves chunk_size and the
\* customizer at their defaults and asks for one instance.
SubmitBidInputs ==
    {i \in [base : Bases, q : 1..MaxQuantity, c : 1..MaxChunkSize,
            customizer : {"none", "raises"},
            has_payload : BOOLEAN, allow_partial : BOOLEAN, defect : Defects] :
        /\ i.has_payload
              => i.defect.field = (IF i.allow_partial THEN "none" ELSE "all")
        /\ (i.has_payload \/ ~i.allow_partial \/ i.defect # NoDefect)
              => i.customizer = "none" /\ i.c = 1 /\ i.q = 1
        /\ i.defect.field = "chunk_size" => i.allow_partial /\ ~i.has_payload}

SubmitBidCall(i, kind) ==
    [NoCall EXCEPT !.kind = kind, !.base = i.base, !.quantity = i.q,
                   !.chunk_size = i.c, !.customizer = i.customizer,
                   !.first = nsent + 1, !.orders_before = Len(remoteOrders),
                   !.entry = "submit_bid", !.has_payload = i.has_payload,
                   !.allow_partial = i.allow_partial, !.defect = i.defect]

DispatchOf(i) ==
    SubmitBidDispatch(i.has_payload, i.allow_partial,
                      SubmitBidArgs(i.base, i.q, i.c, i.defect))

RejectedInputs == {i \in SubmitBidInputs : DispatchOf(i).to = "raise"}
SingleInputs   == {i \in SubmitBidInputs : DispatchOf(i).to = "single"}
PartialInputs  == {i \in SubmitBidInputs : DispatchOf(i).to = "chunks"}

\* submit_bid raises before anything is submitted (lines 440-442, 473-475).
SubmitBidRejects ==
    /\ pc = "idle"
    /\ \E i \in RejectedInputs :
          /\ call' = SubmitBidCall(i, "rejected")
          /\ result' = DispatchOf(i).result
    /\ requests' = <<>>
    /\ req' = NoReq
    /\ resp' = NoResp
    /\ pc' = "done"
    /\ UNCHANGED <<remoteOrders, cancelled, keysSent, nsent, nextUuid, remaining,
                   chunk_index, bids_submitted>>
    /\ UNCHANGED <<matchVars, restVars>>

\* Single-bid mode (lines 421-457): _submit_single_bid hands the payload to
\* FoundryClient.place_bid.
SubmitBidSingle ==
    /\ pc = "idle"
    /\ nsent < MaxRequests
    /\ \E i \in SingleInputs :
          /\ call' = SubmitBidCall(i, "single")
          /\ SendPlaceBid("single", Payload(PlainName(i.base), i.q, <<"base", 0>>),
                          NoKey)
    /\ result' = NoResult
    /\ UNCHANGED <<remoteOrders, cancelled, remaining, chunk_index, bids_submitted>>
    /\ UNCHANGED <<matchVars, restVars>>

\* Partial mode (lines 459-485): a new ChunkedBidEngine runs submit_chunks.
SubmitBidPartial ==
    /\ pc = "idle"
    /\ nsent < MaxRequests
    /\ \E i \in PartialInputs :
          /\ call' = SubmitBidCall(i, "chunks")
    /\ bids_submitted' = <<>>
    /\ remaining' = call'.quantity
    /\ chunk_index' = 1
    /\ result' = NoResult
    /\ req' = NoReq
    /\ resp' = NoResp
    /\ requests' = <<>>
    /\ pc' = "loop"
    /\ UNCHANGED <<remoteOrders, cancelled, keysSent, nsent, nextUuid>>
    /\ UNCHANGED <<matchVars, restVars>>

\* _submit_single_bid lines 525-536: the client's bid in a list, or the
\* client's exception.
SingleBidOutcome(t) ==
    LET r == FoundryPlaceBidOutcome(t) IN
    IF r.kind = "return" THEN Return(<<r.value>>) ELSE r

\* _submit_single_bid returns or raises.
SingleBidCompletes ==
    /\ pc = "replied"
    /\ call.kind = "single"
    /\ result' = SingleBidOutcome(resp)
    /\ nextUuid' = UuidsAfterReply(resp)
    /\ pc' = "done"
    /\ UNCHANGED <<remoteOrders, cancelled, requests, keysSent, nsent, call, req,
                   resp, remaining, chunk_index, bids_submitted>>
    /\ UNCHANGED <<matchVars, restVars>>

SubmitBidNext ==
    \/ SubmitBidRejects
    \/ SubmitBidSingle
    \/ SubmitBidPartial
    \/ ChunkSubmit
    \/ ChunkCustomizerRaises
    \/ ChunksReturn
    \/ RemoteAnswers
    \/ ReplyLost
    \/ ConnectionFails
    \/ RemoteFails
    \/ ReplyUnusable
    \/ BidExistsAnswer
    \/ SingleBidCompletes
    \/ ChunkSubmitted
    \/ ChunkSubmitFails
    \/ NextCall

SpecSubmitBid == Init /\ [][SubmitBidNext]_vars

(***************************************************************************)
(* FlowTaskManager.run                                                     *)
(***************************************************************************)
\* The task configurations a run is given: resources_specification.num_instances,
\* task_management.priority and utility_threshold_price (a decimal, held in
\* hundredths: 115 is 1.15), and whether persistent storage is configured.
RunConfigs ==
    [num_instances : {None, Some(-1), Some(0), Some(1), Some(2)},
     priority : {None, Some("high"), Some("bogus")},
     utility_threshold_price : {None, Some(0), Some(100), Some(115)},
     persistent_storage : BOOLEAN]

RunInit ==
    /\ BidIdle
    /\ MatchIdle
    /\ FindIdle
    /\ FetchIdle
    /\ OtherIdle
    /\ run_config \in RunConfigs
    /\ run_pc = "start"
    /\ stages = <<>>
    /\ run_result = NoResult
    /\ failed_stage = "none"
    /\ run_limit_price = 0
    /\ run_matching = <<>>
    /\ bid_payload = NoPayload
    /\ bids_placed = <<>>
    /\ stale_disk \in BOOLEAN
    /\ status_code_exposed \in BOOLEAN
    /\ attempts = 1
    /\ first_failure = NoResult
    /\ disk_deleted = FALSE
    /\ driver_pc = "running"
    /\ driver_result = NoResult

\* settings PRIORITY_PRICE_MAPPING, as int(price * 100)
PriorityPriceCents(priority) ==
    CASE priority = "critical" -> Some(1499)
      [] priority = "high"     -> Some(1229)
      [] priority = "standard" -> Some(424)
      [] priority = "low"      -> Some(200)
      [] OTHER                 -> None

\* The two-decimal prices x below 2.00, in hundredths, whose product
\* float(x) * 100 in IEEE double arithmetic falls just below the integer
\* (1.15 * 100 = 114.99999999999999).
TruncatedHundredths == {29, 57, 58, 113, 114, 115, 116}

\* line 579: int(float(utility_threshold_price) * 100), for a price in 0..2.00
IntOfFloatTimes100(hundredths) ==
    IF hundredths \in TruncatedHundredths THEN hundredths - 1 ELSE hundredths

\* prepare_limit_price_cents lines 558-596
PrepareLimitPriceCents(priority, utility_threshold_price) ==
    IF ~utility_threshold_price.isnone
    THEN Return(IntOfFloatTimes100(utility_threshold_price.v))
    ELSE IF PriorityPriceCents(priority).isnone
    THEN Raise("ValueError", <<"Invalid", "or", "unsupported", "priority", "level">>,
               "none")
    ELSE Return(PriorityPriceCents(priority).v)

\* _extract_and_prepare_data lines 346-364: the limit price, or ValueError
ExtractLimitPrice(cfg) ==
    LET priority == IF cfg.priority.isnone THEN "standard" ELSE cfg.priority.v IN
    IF priority \notin {"critical", "high", "standard", "low"}
    THEN Raise("ValueError", <<"Invalid", "priority", "level">>, "none")
    ELSE PrepareLimitPriceCents(priority, cfg.utility_threshold_price)

\* A stage is entered; it ends well, or it raises and the run is over.
StageEnds(stage, outcome, next_pc) ==
    /\ stages' = Append(stages, stage)
    /\ IF outcome.kind = "raise"
       THEN /\ run_result' = outcome
            /\ failed_stage' = stage
            /\ run_pc' = "done"
       ELSE /\ run_result' = NoResult
            /\ failed_stage' = failed_stage
            /\ run_pc' = next_pc

\* run lines 124-161: the configuration is read and the startup script built.
RunExtract ==
    /\ run_pc = "start"
    /\ LET r == ExtractLimitPrice(run_config) IN
          /\ StageEnds("configure", r, "extracted")
          /\ run_limit_price' = IF r.kind = "return" THEN r.value ELSE run_limit_price
    /\ UNCHANGED <<run_config, run_matching, bid_payload, bids_placed, notRunVars>>

\* _authenticate_and_get_user_data lines 390-399: get_user; any exception
\* becomes AuthenticationError, a user without id is a ValueError.
AuthenticateOutcomes ==
    {Return(NoValue),
     Raise("AuthenticationError", <<"Authentication", "failed">>, "APIError"),
     Raise("ValueError", <<"User", "ID", "not", "found">>, "none")}

RunAuthenticate ==
    /\ run_pc = "extracted"
    /\ \E r \in AuthenticateOutcomes : StageEnds("authenticate", r, "authenticated")
    /\ UNCHANGED <<run_config, run_limit_price, run_matching, bid_payload, bids_placed,
                   notRunVars>>

\* lines 401-411: get_projects, select_project_id, get_ssh_keys,
\* select_ssh_key_id; what they raise is not caught.
ResolveOutcomes ==
    {Return(NoValue),
     Raise("APIError", <<"get_projects">>, "none"),
     Raise("Exception", <<"Project", "not", "found">>, "none"),
     Raise("APIError", <<"get_ssh_keys">>, "none"),
     Raise("Exception", <<"SSH", "key", "not", "found">>, "none")}

RunResolve ==
    /\ run_pc = "authenticated"
    /\ \E r \in ResolveOutcomes : StageEnds("resolve", r, "resolved")
    /\ UNCHANGED <<run_config, run_limit_price, run_matching, bid_payload, bids_placed,
                   notRunVars>>

\* _find_matching_auctions lines 413-445: fetch_auctions raises, or the
\* matching auctions (none, one or two) are returned.
FindMatchingOutcomes ==
    {Return(<<>>), Return(<<"auction1">>), Return(<<"auction1", "auction2">>),
     Raise("ValueError", <<"No", "auctions", "found">>, "none"),
     Raise("APIError", <<"get_auctions">>, "none")}

RunFindMatching ==
    /\ run_pc = "resolved"
    /\ \E r \in FindMatchingOutcomes :
          /\ StageEnds("match", r, "matched")
          /\ run_matching' = IF r.kind = "return" THEN r.value ELSE run_matching
    /\ UNCHANGED <<run_config, run_limit_price, bid_payload, bids_placed, notRunVars>>

\* _prepare_and_submit_bid lines 477-500: no matching auction, or the first
\* one is selected and its region resolved.
SelectOutcomes(matching) ==
    IF matching = <<>>
    THEN {Raise("NoMatchingAuctionsError", <<"No", "matching", "auctions">>, "none")}
    ELSE {Return(matching[1]),
          Raise("ValueError", <<"no", "valid", "region">>, "none")}

RunSelectAuction ==
    /\ run_pc = "matched"
    /\ \E r \in SelectOutcomes(run_matching) : StageEnds("select", r, "selected")
    /\ UNCHANGED <<run_config, run_limit_price, run_matching, bid_payload, bids_placed,
                   notRunVars>>

\* Variant: the storage handler is called whatever the configuration says.
NeedsStorage_Always(cfg) == TRUE

\* line 509: if persistent_storage
NeedsStorage(cfg) == cfg.persistent_storage

\* lines 507-522: handle_persistent_storage returns an attachment or raises.
\* storage_client.py line 242: the message of the APIError for a 409 answer
ConflictMessage == <<"API", "request", "failed", "[409]">>

\* lines 507-522: with a disk of that name left behind the creation is
\* answered 409; otherwise the attachment is returned or the call fails.
StorageOutcomes(stale) ==
    IF stale
    THEN {Raise("APIError", ConflictMessage, "HTTPError")}
    ELSE {Return(NoValue), Raise("APIError", <<"create_disk">>, "none")}

RunStorage ==
    /\ run_pc = "selected"
    /\ NeedsStorage(run_config)
    /\ \E r \in StorageOutcomes(stale_disk) : StageEnds("storage", r, "stored")
    /\ UNCHANGED <<run_config, run_limit_price, run_matching, bid_payload, bids_placed,
                   notRunVars>>

\* line 526: resources_specification.num_instances or 1
InstanceQuantity(num_instances) ==
    IF num_instances.isnone \/ num_instances.v = 0 THEN 1 ELSE num_instances.v

\* lines 524-535: prepare_bid_payload builds the BidPayload, or the model's
\* validation raises.
PreparedPayload(cfg, limit) ==
    LET q == InstanceQuantity(cfg.num_instances) IN
    IF BidPayloadValid(q, limit)
    THEN Return([instance_quantity |-> q, limit_price_cents |-> limit])
    ELSE Raise("ValidationError", <<"BidPayload">>, "none")

RunPreparePayload ==
    /\ \/ run_pc = "selected" /\ ~NeedsStorage(run_config)
       \/ run_pc = "stored"
    /\ LET r == PreparedPayload(run_config, run_limit_price) IN
          /\ StageEnds("payload", r, "prepared")
          /\ bid_payload' = IF r.kind = "return" THEN r.value ELSE bid_payload
    /\ UNCHANGED <<run_config, run_limit_price, run_matching, bids_placed, notRunVars>>

\* lines 540-556: submit_bid returns the bid, or what it raises becomes
\* BidSubmissionError.
SubmitBidOutcomes ==
    {Return(NoValue),
     Raise("BidSubmissionError", <<"Bid", "submission", "failed">>, "APIError")}

RunSubmitBid ==
    /\ run_pc = "prepared"
    /\ bids_placed' = Append(bids_placed, bid_payload)
    /\ \E r \in SubmitBidOutcomes :
          /\ stages' = Append(stages, "submit")
          /\ run_result' = r
          /\ failed_stage' = IF r.kind = "raise" THEN "submit" ELSE failed_stage
          /\ run_pc' = "done"
    /\ UNCHANGED <<run_config, run_limit_price, run_matching, bid_payload, notRunVars>>

RunNext ==
    \/ RunExtract
    \/ RunAuthenticate
    \/ RunResolve
    \/ RunFindMatching
    \/ RunSelectAuction
    \/ RunStorage
    \/ RunPreparePayload
    \/ RunSubmitBid

SpecRun == RunInit /\ [][RunNext]_vars

(***************************************************************************)
(* The caller of run that cleans up after a disk conflict and runs again   *)
(* (tests/integration/test_managers/test_task_manager_integration.py).     *)
(***************************************************************************)
\* The run failed on the 409 answer to the disk creation.
IsDiskConflict(e) ==
    e.kind = "raise" /\ e.exc = "APIError" /\ e.msg = ConflictMessage

\* line 227: getattr(exc, "status_code", None) == 409
HasStatus409(e) == IsDiskConflict(e) /\ status_code_exposed

\* lines 225-227: except APIError, with status_code 409
CaughtAsConflict(e) == e.kind = "raise" /\ e.exc = "APIError" /\ HasStatus409(e)

\* line 223: run() returned.
DriverFinishes ==
    /\ driver_pc = "running"
    /\ run_pc = "done"
    /\ run_result.kind = "return"
    /\ driver_result' = run_result
    /\ driver_pc' = "done"
    /\ UNCHANGED <<stale_disk, status_code_exposed, attempts, first_failure,
                   disk_deleted>>
    /\ UNCHANGED <<bidVars, matchVars, findVars, fetchVars, runVars, otherVars>>

\* lines 225-240: the first run raised the conflict: delete_disk is called,
\* its failure is logged and dropped, and run() is called once more.
DriverCleansUpAndRetries ==
    /\ driver_pc = "running"
    /\ attempts = 1
    /\ run_pc = "done"
    /\ CaughtAsConflict(run_result)
    /\ first_failure' = run_result
    /\ \E deleted \in BOOLEAN :
          /\ disk_deleted' = deleted
          /\ stale_disk' = IF deleted THEN FALSE ELSE stale_disk
    /\ attempts' = 2
    /\ run_pc' = "start"
    /\ stages' = <<>>
    /\ run_result' = NoResult
    /\ failed_stage' = "none"
    /\ run_limit_price' = 0
    /\ run_matching' = <<>>
    /\ bid_payload' = NoPayload
    /\ UNCHANGED <<run_config, bids_placed, status_code_exposed, driver_pc,
                   driver_result>>
    /\ UNCHANGED <<bidVars, matchVars, findVars, fetchVars, otherVars>>

\* lines 241-242 and line 240: any other exception of the first run, and
\* every exception of the second run, reaches the caller.
DriverPropagates ==
    /\ driver_pc = "running"
    /\ run_pc = "done"
    /\ run_result.kind = "raise"
    /\ attempts = 2 \/ ~CaughtAsConflict(run_result)
    /\ first_failure' = IF attempts = 1 THEN run_result ELSE first_failure
    /\ driver_result' = run_result
    /\ driver_pc' = "done"
    /\ UNCHANGED <<stale_disk, status_code_exposed, attempts, disk_deleted>>
    /\ UNCHANGED <<bidVars, matchVars, findVars, fetchVars, runVars, otherVars>>

DriverNext ==
    \/ RunNext
    \/ DriverFinishes
    \/ DriverCleansUpAndRetries
    \/ DriverPropagates

SpecDriver == RunInit /\ [][DriverNext]_vars

(***************************************************************************)
(* HTTPClient over its session (clients/http_client.py) and                *)
(* UserService.get_user (clients/fcp_client.py).  The server side answers  *)
(* the first transport.failures attempts of a call with 500 and the next   *)
(* one as transport.then says.                                             *)
(***************************************************************************)
MaxRetries == 2

MaxFailures == 3

TransportEnds == {"ok", "ok_not_json", "unauthorized", "forbidden", "not_found",
                  "server_error", "timeout", "connection_error",
                  "request_exception"}

UserData == [id |-> "u1", name |-> "user"]

TransportAnswer(kind) ==
    CASE kind = "ok"           -> Response(200, TRUE, <<>>, UserData, "server")
      [] kind = "ok_not_json"  -> Response(200, FALSE, <<"<html>">>, NoData, "server")
      [] kind = "unauthorized" -> Response(401, TRUE, UnauthorizedBody, NoData, "server")
      [] kind = "forbidden"    -> Response(403, TRUE, <<"Forbidden">>, NoData, "server")
      [] kind = "not_found"    -> Response(404, FALSE, <<"Not", "Found">>, NoData, "server")
      [] kind = "server_error" -> Response(500, TRUE, ServerErrorBody, NoData, "server")
      [] OTHER                 -> [kind |-> kind, origin |-> "transport"]

HttpCalls ==
    {c \in [entry : {"request", "get_user"}, method : {"GET", "POST"},
            https : BOOLEAN, max_retries : 0..MaxRetries] :
        c.entry = "get_user" => c.method = "GET"}

Transports == [failures : 0..MaxFailures, then : TransportEnds]

HttpInit ==
    /\ BidIdle
    /\ MatchIdle
    /\ FindIdle
    /\ FetchIdle
    /\ RunIdle
    /\ DriverIdle
    /\ ThreadsIdle
    /\ LoadIdle
    /\ EngineIdle
    /\ http_call \in HttpCalls
    /\ transport \in Transports
    /\ http_attempts = 0
    /\ session_outcome = NoResp
    /\ http_pc = "session"
    /\ http_result = NoResult

\* What the server side gives the n-th attempt of the call.
AttemptAnswer(n) ==
    IF n <= transport.failures
    THEN TransportAnswer("server_error")
    ELSE TransportAnswer(transport.then)

\* _create_session: the Retry mounted on "https://"; retried attempts so far
\* are counted against total.
ShouldRetry_OneFewer(c, answer, retried) ==
    /\ c.https
    /\ answer.kind = "response"
    /\ answer.status \in {429, 500, 502, 503, 504}
    /\ c.method \in {"GET", "PUT", "DELETE"}
    /\ retried + 1 < c.max_retries

ShouldRetry(c, answer, retried) ==
    /\ c.https
    /\ answer.kind = "response"
    /\ answer.status \in {429, 500, 502, 503, 504}
    /\ c.method \in {"GET", "PUT", "DELETE"}
    /\ retried < c.max_retries

\* The adapter sends the request again after a status of the force list.
AdapterRetries ==
    /\ http_pc = "session"
    /\ ShouldRetry(http_call, AttemptAnswer(http_attempts + 1), http_attempts)
    /\ http_attempts' = http_attempts + 1
    /\ UNCHANGED <<http_call, transport, session_outcome, http_pc, http_result>>
    /\ UNCHANGED notHttpVars

\* session.request returns the response of the last attempt.
SessionReturns ==
    /\ http_pc = "session"
    /\ LET answer == AttemptAnswer(http_attempts + 1) IN
        /\ answer.kind = "response"
        /\ ~ShouldRetry(http_call, answer, http_attempts)
        /\ session_outcome' = answer
    /\ http_attempts' = http_attempts + 1
    /\ http_pc' = "answered"
    /\ UNCHANGED <<http_call, transport, http_result>>
    /\ UNCHANGED notHttpVars

\* session.request raises Timeout, ConnectionError or another
\* RequestException.
SessionRaises ==
    /\ http_pc = "session"
    /\ LET answer == AttemptAnswer(http_attempts + 1) IN
        /\ answer.kind # "response"
        /\ session_outcome' = answer
    /\ http_attempts' = http_attempts + 1
    /\ http_pc' = "answered"
    /\ UNCHANGED <<http_call, transport, http_result>>
    /\ UNCHANGED notHttpVars

\* get_user, _user_error_handler: status is read only from a truthy
\* err.response, and a response is truthy when its status is below 400.
HandlerStatus(t) == IF t.status < 400 THEN Some(t.status) ELSE None

UserErrorHandler(t) ==
    IF HandlerStatus(t) \in {Some(401), Some(403)}
    THEN Raise("AuthenticationError",
               <<"Unauthorized", "while", "fetching", "user", "info">>, "HTTPError")
    ELSE Raise("APIError", ApiErrorMessage(t), "HTTPError")

\* request with error_handler: what the handler raises leaves request.
RequestWithHandler(t, handler) ==
    IF t.kind = "response" /\ t.status >= 400 /\ handler = "user"
    THEN UserErrorHandler(t)
    ELSE HttpRequest(t, NoResp)

GetUser(t) ==
    LET response == RequestWithHandler(t, "user") IN
    IF response.kind = "raise"
    THEN response
    ELSE IF ~response.value.json
    THEN Raise("ValueError", <<"not", "JSON">>, "none")
    ELSE Return(response.value.data)

CallOutcome(c, t) ==
    IF c.entry = "get_user" THEN GetUser(t) ELSE RequestWithHandler(t, "none")

RequestCompletes ==
    /\ http_pc = "answered"
    /\ http_result' = CallOutcome(http_call, session_outcome)
    /\ http_pc' = "done"
    /\ UNCHANGED <<http_call, transport, http_attempts, session_outcome>>
    /\ UNCHANGED notHttpVars

HttpNext == AdapterRetries \/ SessionReturns \/ SessionRaises \/ RequestCompletes

SpecHttp == HttpInit /\ [][HttpNext]_vars

(***************************************************************************)
(* BidService.place_bid called from MaxThreads threads on one client.  A   *)
(* call keeps its payload, key, request and response in locals; the        *)
(* threads share the uuid generator, the session and, behind it, the       *)
(* remote, which answers every request.                                    *)
(***************************************************************************)
MaxThreads == 2

Threads == 1..MaxThreads

ThreadStart(base, idempotency_key) ==
    [payload |-> Payload(PlainName(base), 1, <<"base", 0>>),
     idempotency_key |-> idempotency_key,
     pc |-> "start", req |-> NoReq, resp |-> NoResp, result |-> NoResult]

ThreadsInit ==
    /\ BidIdle
    /\ MatchIdle
    /\ FindIdle
    /\ FetchIdle
    /\ RunIdle
    /\ DriverIdle
    /\ HttpIdle
    /\ LoadIdle
    /\ EngineIdle
    /\ threads \in [Threads -> {ThreadStart(base, k) :
                                   base \in Bases, k \in {NoKey, CallerKey}}]

notThreadVars == <<matchVars, findVars, fetchVars, runVars, driverVars, httpVars,
                   loadVars, engineVars>>

\* place_bid, lines 413-416 and 456-462: the key is drawn and the POST is
\* handed to the session.
ThreadSends(i) ==
    /\ threads[i].pc = "start"
    /\ LET th  == threads[i]
           key == IdempotencyKey(th.idempotency_key, Uuid(nextUuid + 1))
           r   == [method |-> "POST", payload |-> th.payload, key |-> key, bid_id |-> 0]
       IN  /\ threads' = [threads EXCEPT ![i].req = r, ![i].pc = "sent"]
           /\ nextUuid' = IF th.idempotency_key = NoKey THEN nextUuid + 1 ELSE nextUuid
    /\ UNCHANGED <<remoteOrders, cancelled, requests, keysSent, nsent, pc, call, req,
                   resp, result, remaining, chunk_index, bids_submitted>>
    /\ UNCHANGED notThreadVars

\* The remote takes the thread's request and the session hands its reply to
\* the session.request call of that thread.
RemoteAnswersThread(i) ==
    /\ threads[i].pc = "sent"
    /\ remoteOrders' = RemoteOrdersAfter(threads[i].req)
    /\ threads' = [threads EXCEPT ![i].resp = RemoteReply(threads[i].req),
                                  ![i].pc = "replied"]
    /\ UNCHANGED <<cancelled, requests, keysSent, nsent, nextUuid, pc, call, req,
                   resp, result, remaining, chunk_index, bids_submitted>>
    /\ UNCHANGED notThreadVars

\* duplicate_bid_handler, closed over the payload of its own call
DuplicateBidHandlerOf(payload, id, response) ==
    IF response.status = 400 /\ IsDuplicateOrderText(Lower(response.body))
    THEN Response(200, TRUE, <<"OK">>,
                  DummyResponse(id,
                                payload.order_name,
                                payload.project_id,
                                "user1",
                                payload.cluster_id,
                                payload.instance_quantity,
                                payload.instance_type_id,
                                payload.limit_price_cents),
                  "dummy")
    ELSE NoResp

\* place_bid, lines 456-473, for the payload of its own call
PlaceBidOf(payload, id, t) ==
    LET r == HttpRequest(t, DuplicateBidHandlerOf(payload, id, t)) IN
    IF r.kind = "raise" THEN r
    ELSE IF ~r.value.json
    THEN Raise("ValueError", <<"not", "json">>, "none")
    ELSE IF ~ModelValidates(r.value.data)
    THEN Raise("APIError", <<"Invalid", "JSON", "response", "for", "place_bid">>,
               "ValueError")
    ELSE Return(BidResponseOf(r.value.data))

\* place_bid returns or raises in thread i.
ThreadCompletes(i) ==
    /\ threads[i].pc = "replied"
    /\ LET th == threads[i]
           dummy == th.resp.status >= 400
                    /\ DuplicateBidHandlerOf(th.payload, Uuid(nextUuid + 1), th.resp) # NoResp
       IN  /\ threads' = [threads EXCEPT
                            ![i].result = PlaceBidOf(th.payload, Uuid(nextUuid + 1), th.resp),
                            ![i].pc = "done"]
           /\ nextUuid' = IF dummy THEN nextUuid + 1 ELSE nextUuid
    /\ UNCHANGED <<remoteOrders, cancelled, requests, keysSent, nsent, pc, call, req,
                   resp, result, remaining, chunk_index, bids_submitted>>
    /\ UNCHANGED notThreadVars

ThreadsNext ==
    \E i \in Threads : ThreadSends(i) \/ RemoteAnswersThread(i) \/ ThreadCompletes(i)

SpecThreads == ThreadsInit /\ [][ThreadsNext]_vars

(***************************************************************************)
(* AuctionFinder._load_auctions_from_local_catalog: the loop over the      *)
(* entries of the file, in file order.  An item of raw_data is an entry of *)
(* a region's list, with the region-name key it stands under, or a region  *)
(* whose value is no list.  The entry at position n has base_auction id n. *)
(***************************************************************************)
MaxRecords == 3

RegionNames == {"eu-central1-a", "us-central1-a"}

EntryKinds == {"with_region",       \* a mapping, base_auction names its region
               "without_region",    \* a mapping, base_auction has no region key
               "null_region",       \* a mapping, base_auction has region: null
               "bad_field",         \* a mapping, base_auction has a field Auction rejects
               "base_not_mapping",  \* a mapping, base_auction is a string
               "not_mapping",       \* the entry is a string
               "region_not_list"}   \* the region's value is no list

RawData ==
    UNION {[1..n -> [region_name : RegionNames, kind : EntryKinds]] : n \in 0..MaxRecords}

LoadInit ==
    /\ BidIdle
    /\ MatchIdle
    /\ FindIdle
    /\ FetchIdle
    /\ RunIdle
    /\ DriverIdle
    /\ HttpIdle
    /\ ThreadsIdle
    /\ EngineIdle
    /\ raw_data \in RawData
    /\ load_i = 0
    /\ all_auctions = <<>>
    /\ load_result = NoResult

notLoadVars == <<bidVars, matchVars, findVars, fetchVars, runVars, driverVars, httpVars,
                 threads, engineVars>>

\* Auction(**mapped_data): the model takes the mapped fields or raises.
AuctionValidates(kind) == kind # "bad_field"

\* line 549: base_auction_dict.get("region", fallback_region_name)
RegionOf(kind, fallback_region_name) ==
    CASE kind = "with_region" -> Some("asia-east1-a")
      [] kind = "null_region" -> None
      [] OTHER                -> Some(fallback_region_name)

\* _create_auction_from_dict: the Auction, or None after any Exception
CreateAuctionFromDict(n, kind, fallback_region_name) ==
    IF kind = "base_not_mapping" THEN None
    ELSE IF ~AuctionValidates(kind) THEN None
    ELSE Some([cluster_id |-> n, region |-> RegionOf(kind, fallback_region_name)])

\* lines 503-509: what the entry at position n adds to all_auctions
AppendedBy(n, item) ==
    LET auction_obj == CreateAuctionFromDict(n, item.kind, item.region_name) IN
    IF auction_obj = None THEN <<>> ELSE <<auction_obj.v>>

\* lines 499-500: a region whose value is no list is passed over.
LoadSkipsRegion ==
    /\ load_result = NoResult
    /\ load_i < Len(raw_data)
    /\ raw_data[load_i + 1].kind = "region_not_list"
    /\ load_i' = load_i + 1
    /\ UNCHANGED <<raw_data, all_auctions, load_result, notLoadVars>>

\* lines 502-509, an entry that has get
LoadEntry ==
    /\ load_result = NoResult
    /\ load_i < Len(raw_data)
    /\ raw_data[load_i + 1].kind \notin {"region_not_list", "not_mapping"}
    /\ all_auctions' = all_auctions \o AppendedBy(load_i + 1, raw_data[load_i + 1])
    /\ load_i' = load_i + 1
    /\ UNCHANGED <<raw_data, load_result, notLoadVars>>

\* line 503, an entry that has no get: the AttributeError leaves the loop.
LoadEntryRaises ==
    /\ load_result = NoResult
    /\ load_i < Len(raw_data)
    /\ raw_data[load_i + 1].kind = "not_mapping"
    /\ load_result' = Raise("AttributeError", <<"str", "has", "no", "get">>, "none")
    /\ load_i' = load_i + 1
    /\ UNCHANGED <<raw_data, all_auctions, notLoadVars>>

\* lines 511-516
LoadReturns ==
    /\ load_result = NoResult
    /\ load_i = Len(raw_data)
    /\ load_result' = Return(all_auctions)
    /\ UNCHANGED <<raw_data, load_i, all_auctions, notLoadVars>>

LoadNext == LoadSkipsRegion \/ LoadEntry \/ LoadEntryRaises \/ LoadReturns

SpecLoad == LoadInit /\ [][LoadNext]_vars

(***************************************************************************)
(* BidManager.submit_bid in partial-fulfillment mode called from two       *)
(* threads on one BidManager.  Line 478 stores a new ChunkedBidEngine in   *)
(* self.chunked_engine and line 483 reads the attribute again; a thread    *)
(* switch may fall between the two.  Every submission returns a bid.       *)
(***************************************************************************)
Callers == {1, 2}

\* The callback caller i passes as startup_script_customizer.
CallbackOf(i) == <<"callback", i>>

CallerStart(q, c) ==
    [instance_quantity |-> q, chunk_size |-> c, pc |-> "start",
     engine |-> [owner |-> 0, customizer |-> "none"],
     remaining |-> 0, chunk_index |-> 0, scripts |-> <<>>]

EngineInit ==
    /\ BidIdle
    /\ MatchIdle
    /\ FindIdle
    /\ FetchIdle
    /\ RunIdle
    /\ DriverIdle
    /\ HttpIdle
    /\ ThreadsIdle
    /\ LoadIdle
    /\ chunked_engine = [owner |-> 0, customizer |-> "none"]
    /\ callers \in [Callers -> {CallerStart(q, c) : q \in 1..MaxQuantity,
                                                   c \in 1..MaxChunkSize}]

notEngineVars == <<bidVars, matchVars, findVars, fetchVars, runVars, driverVars, httpVars,
                   threads, loadVars>>

\* lines 478-482: self.chunked_engine = ChunkedBidEngine(...)
StoreEngine(i) ==
    /\ callers[i].pc = "start"
    /\ chunked_engine' = [owner |-> i, customizer |-> CallbackOf(i)]
    /\ callers' = [callers EXCEPT ![i].pc = "stored"]
    /\ UNCHANGED notEngineVars

\* line 483: the engine self.chunked_engine names when the call is made
EngineCalled(i) == chunked_engine

\* lines 483-485 and 245-247: submit_chunks starts on the engine read from
\* the attribute.
EngineCallsSubmitChunks(i) ==
    /\ callers[i].pc = "stored"
    /\ callers' = [callers EXCEPT ![i].engine = EngineCalled(i),
                                  ![i].remaining = callers[i].instance_quantity,
                                  ![i].chunk_index = 1,
                                  ![i].pc = "chunks"]
    /\ UNCHANGED <<chunked_engine, notEngineVars>>

\* lines 248-286: one iteration; the script comes from the customizer of
\* the engine submit_chunks runs on.
EngineSubmitsChunk(i) ==
    /\ callers[i].pc = "chunks"
    /\ callers[i].remaining > 0
    /\ LET cl == callers[i]
           current_chunk == CurrentChunk(cl.chunk_size, cl.remaining)
       IN  callers' = [callers EXCEPT
                         ![i].scripts = Append(cl.scripts,
                                               [by |-> cl.engine.customizer,
                                                index |-> cl.chunk_index]),
                         ![i].remaining = cl.remaining - current_chunk,
                         ![i].chunk_index = cl.chunk_index + 1]
    /\ UNCHANGED <<chunked_engine, notEngineVars>>

\* lines 248 and 288-293
EngineReturns(i) ==
    /\ callers[i].pc = "chunks"
    /\ callers[i].remaining <= 0
    /\ callers' = [callers EXCEPT ![i].pc = "done"]
    /\ UNCHANGED <<chunked_engine, notEngineVars>>

EngineNext ==
    \E i \in Callers :
        StoreEngine(i) \/ EngineCallsSubmitChunks(i) \/ EngineSubmitsChunk(i) \/ EngineReturns(i)

SpecEngine == EngineInit /\ [][EngineNext]_vars

(***************************************************************************)
(* One submit_chunks call run to its end.  The call is synchronous: its    *)
(* next statement is always taken, and every submission handed to the      *)
(* submitter returns or raises.                                            *)
(***************************************************************************)
SubmitChunksNext ==
    \/ CallSubmitChunks
    \/ ChunkSubmit
    \/ ChunkCustomizerRaises
    \/ ChunksReturn
    \/ RemoteAnswers
    \/ ReplyLost
    \/ ConnectionFails
    \/ RemoteFails
    \/ ReplyUnusable
    \/ BidExistsAnswer
    \/ ChunkSubmitted
    \/ ChunkSubmitFails

SpecSubmitChunks == Init /\ [][SubmitChunksNext]_vars /\ WF_vars(SubmitChunksNext)

(***************************************************************************)
(* Properties                                                              *)
(***************************************************************************)
\* The call in progress has finished with a value / with an exception.
Returned == pc = "done" /\ result.kind = "return"
Raised   == pc = "done" /\ result.kind = "raise"

\* Number of orders of a name on the remote.
OrdersNamed(name) == Cardinality({i \in 1..Len(remoteOrders) : remoteOrders[i].name = name})

\* C1: a place_bid answered with the duplicate-order conflict returns a Bid
\* whose status is "duplicate" and whose name is the payload's order_name.
C1_DuplicateReturnsDuplicateStatus ==
    (pc = "done" /\ call.kind = "place" /\ resp.origin = "duplicate")
        => /\ result.kind = "return"
           /\ "status" \in DOMAIN result.value
           /\ result.value.status = "duplicate"
           /\ result.value.name = req.payload.order_name

C3_OneKeyPerSubmission ==
    \A e1, e2 \in keysSent :
        (e1[1] = "submit" /\ e2[1] = "submit" /\ e1[2] = e2[2]) => e1[3] = e2[3]

\* C4: a place_bid answered 400 {"error": "Bid already exists"} returns a
\* BidResponse whose name is the payload's order_name.
C4_BidExistsReturnsResponse ==
    (pc = "done" /\ call.kind = "place" /\ resp.origin = "bid_exists")
        => /\ result.kind = "return"
           /\ result.value.name = req.payload.order_name

\* C5: cancel_bid returns normally when the remote cancelled the bid or
\* reports it as not found, and raises on every other failure of the request.
C5_CancelIdempotent ==
    (pc = "done" /\ call.kind = "cancel")
        => /\ resp.origin \in {"cancelled", "not_found"} => result.kind = "return"
           /\ resp.origin \notin {"cancelled", "not_found"} => result.kind = "raise"

\* A bid that is already cancelled is cancelled again, and the call returns.
C5_Witness ==
    /\ Returned
    /\ call.kind = "cancel"
    /\ call.bid_id \in cancelled
    /\ resp.origin = "not_found"

(***************************************************************************)
(* Chunking                                                                *)
(***************************************************************************)
CeilDiv(q, c) == (q + c - 1) \div c

\* size the n-th chunk of q instances in chunks of c must have
ExpectedChunk(q, c, n) == IF c < q - (n - 1) * c THEN c ELSE q - (n - 1) * c

RECURSIVE SumQuantity(_)
SumQuantity(rs) ==
    IF rs = <<>> THEN 0
    ELSE Head(rs).payload.instance_quantity + SumQuantity(Tail(rs))

\* names of the orders the remote accepted since the call in progress began
PlacedByCall ==
    {remoteOrders[i].name : i \in (call.orders_before + 1)..Len(remoteOrders)}

\* the last reply of the call in progress was a failed submission
LastSubmissionFailed == resp.origin \notin {"accepted", "duplicate", "none"}

\* C6: with no failure submit_chunks submits ceil(q/c) orders, the n-th of
\* size min(c, q-(n-1)c) named base-chunk<n>, summing to q, and returns the
\* n-th order's Bid at position n.
C6_ChunksCoverQuantity ==
    (pc = "done" /\ call.kind = "chunks" /\ result.kind = "return")
        => /\ Len(requests) = CeilDiv(call.quantity, call.chunk_size)
           /\ SumQuantity(requests) = call.quantity
           /\ Len(result.value) = Len(requests)
           /\ \A n \in 1..Len(requests) :
                 /\ requests[n].payload.instance_quantity
                       = ExpectedChunk(call.quantity, call.chunk_size, n)
                 /\ requests[n].payload.order_name = [base |-> call.base, chunk |-> n]
                 /\ result.value[n].name = [base |-> call.base, chunk |-> n]
                 /\ result.value[n].instance_quantity
                       = ExpectedChunk(call.quantity, call.chunk_size, n)
                 /\ [base |-> call.base, chunk |-> n] \in RemoteNames

\* A quantity that does not divide evenly was submitted: the last chunk is smaller.
C6_Witness ==
    /\ Returned
    /\ call.kind = "chunks"
    /\ Len(requests) >= 2
    /\ requests[Len(requests)].payload.instance_quantity < call.chunk_size

\* C7 as stated: when chunk k fails, chunks 1..k were requested once each, a
\* BidSubmissionError is raised, and chunks 1..k-1 and no other were placed.
C7_ExactlyEarlierChunksPlaced ==
    (pc = "done" /\ call.kind = "chunks" /\ LastSubmissionFailed)
        => /\ result.kind = "raise" /\ result.exc = "BidSubmissionError"
           /\ \A n \in 1..Len(requests) :
                 requests[n].payload.order_name = [base |-> call.base, chunk |-> n]
           /\ \A n \in 1..(Len(requests) - 1) :
                 [base |-> call.base, chunk |-> n] \in RemoteNames
           /\ [base |-> call.base, chunk |-> Len(requests)] \notin PlacedByCall

\* C7 amended: a chunk is requested only after every earlier chunk succeeded;
\* when chunk k fails the call raises BidSubmissionError having requested
\* chunks 1..k once each, chunks 1..k-1 are on the remote, and chunk k was
\* placed only if its request arrived and the reply was lost or unusable.
C7_FailureStopsChunks ==
    /\ (call.kind = "chunks" /\ pc = "loop")
          => Len(bids_submitted) = Len(requests) /\ chunk_index = Len(requests) + 1
    /\ (call.kind = "chunks" /\ pc \in {"sent", "replied"})
          => Len(requests) = Len(bids_submitted) + 1 /\ chunk_index = Len(requests)
    /\ (pc = "done" /\ call.kind = "chunks" /\ LastSubmissionFailed)
          => /\ result.kind = "raise" /\ result.exc = "BidSubmissionError"
             /\ Len(bids_submitted) = Len(requests) - 1
             /\ \A n \in 1..Len(requests) :
                   requests[n].payload.order_name = [base |-> call.base, chunk |-> n]
             /\ \A n \in 1..(Len(requests) - 1) :
                   [base |-> call.base, chunk |-> n] \in RemoteNames
             /\ PlacedByCall \subseteq {[base |-> call.base, chunk |-> n] : n \in 1..Len(requests)}
             /\ [base |-> call.base, chunk |-> Len(requests)] \in PlacedByCall
                   => resp.origin \in {"reply_lost", "not_json", "no_id"}

\* The second chunk failed after its request reached the remote.
C7_Witness ==
    /\ Raised
    /\ call.kind = "chunks"
    /\ Len(requests) >= 2
    /\ resp.origin = "reply_lost"
    /\ [base |-> call.base, chunk |-> Len(requests)] \in PlacedByCall

(***************************************************************************)
(* Error wrapping                                                          *)
(***************************************************************************)
\* the exception place_bid raises for each kind of failed exchange
ClientError(origin) ==
    CASE origin = "reply_lost"       -> "TimeoutError"
      [] origin = "connection_error" -> "NetworkError"
      [] origin = "server_error"     -> "APIError"
      [] origin = "unauthorized"     -> "AuthenticationError"
      [] origin = "bid_exists"       -> "APIError"
      [] origin = "no_id"            -> "APIError"
      [] origin = "not_json"         -> "ValueError"
      [] OTHER                       -> "none"

\* C8: submit returns the client's Bid when place_bid succeeds and otherwise
\* raises BidSubmissionError whose cause is the client's exception.
C8_SubmitWrapsEveryError ==
    (pc = "done" /\ call.kind = "submit")
        => IF resp.origin \in {"accepted", "duplicate"}
           THEN /\ result.kind = "return"
                /\ resp.origin = "accepted" => result.value = BidResponseOf(resp.data)
                /\ resp.origin = "duplicate" => result.value.id[1] = "uuid"
           ELSE /\ result.kind = "raise"
                /\ result.exc = "BidSubmissionError"
                /\ result.cause = ClientError(resp.origin)
                /\ result.cause # "none"

\* submit raised BidSubmissionError caused by the client's TimeoutError.
C8_Witness ==
    /\ Raised
    /\ call.kind = "submit"
    /\ result.exc = "BidSubmissionError"
    /\ result.cause = "TimeoutError"

\* C9 as stated: an exception that is not of the remote-call-failed kind (the
\* ValueError of a 200 reply that is not JSON) reaches the caller unchanged.
C9_OtherExceptionsPropagate ==
    (pc = "done" /\ call.kind \in {"submit", "chunks"} /\ resp.origin = "not_json")
        => result.kind = "raise" /\ result.exc = "ValueError"

\* C9 amended: the submitter wraps every exception of the client, the raw
\* ValueError included; the chunked engine has no handler of its own, so the
\* customizer's exception reaches the caller unchanged.
C9_SubmitterWrapsAllEngineNone ==
    /\ (pc = "done" /\ call.kind \in {"submit", "chunks"} /\ resp.origin = "not_json")
          => /\ result.kind = "raise"
             /\ result.exc = "BidSubmissionError"
             /\ result.cause = "ValueError"
    /\ (pc = "done" /\ call.kind = "chunks" /\ ~LastSubmissionFailed
           /\ result.kind = "raise")
          => /\ result.exc = "RuntimeError"
             /\ CustomizerRaises(call.customizer, chunk_index)

\* A chunk's reply was not JSON and the engine raised BidSubmissionError.
C9_Witness ==
    /\ Raised
    /\ call.kind = "chunks"
    /\ resp.origin = "not_json"
    /\ result.exc = "BidSubmissionError"
    /\ result.cause = "ValueError"

(***************************************************************************)
(* Matching                                                                *)
(***************************************************************************)
\* the words of a text: its maximal runs of characters other than space and "-"
WordStarts(text) == {i \in 1..Len(text) : IsWordChar(text[i]) /\ (i = 1 \/ ~IsWordChar(text[i - 1]))}
WordEnd(text, i) ==
    CHOOSE j \in i..Len(text) :
        /\ \A k \in i..j : IsWordChar(text[k])
        /\ (j = Len(text) \/ ~IsWordChar(text[j + 1]))
Words(text) == {SubSeq(text, i, WordEnd(text, i)) : i \in WordStarts(text)}

\* the auction passes each of the five criteria, stated on the values
GpuTypeOk ==
    criteria.gpu_type.isnone \/ criteria.gpu_type.v = <<>>
       \/ (~auction.gpu_type.isnone
             /\ LowerStr(Strip(criteria.gpu_type.v)) \in Words(LowerStr(auction.gpu_type.v)))
NumGpusOk ==
    criteria.num_gpus.isnone
       \/ (IF auction.inventory_quantity.isnone THEN 0 ELSE auction.inventory_quantity.v)
             >= criteria.num_gpus.v
InternodeOk ==
    criteria.internode_interconnect.isnone
       \/ (~auction.internode_interconnect.isnone
             /\ LowerStr(auction.internode_interconnect.v)
                   = LowerStr(criteria.internode_interconnect.v))
IntranodeOk ==
    criteria.intranode_interconnect.isnone
       \/ (~auction.intranode_interconnect.isnone
             /\ LowerStr(auction.intranode_interconnect.v)
                   = LowerStr(criteria.intranode_interconnect.v))
FcpInstanceOk ==
    criteria.fcp_instance.isnone \/ criteria.fcp_instance.v = <<>>
       \/ (~auction.fcp_instance.isnone /\ auction.fcp_instance.v = criteria.fcp_instance.v)

\* C10: matches is true iff the five checks pass, an absent criterion always
\* passing; changing one criterion of a matching pair so that its check fails
\* makes the result false.
C10_MatchesIffAllChecksPass ==
    matched # NoResult
        => /\ matched.value
                <=> (GpuTypeOk /\ NumGpusOk /\ InternodeOk /\ IntranodeOk /\ FcpInstanceOk)
           /\ Len(check_results) = 5
           /\ matched.value =>
                 /\ \A g \in GpuTypeCriteria :
                       ~CheckGpuType([criteria EXCEPT !.gpu_type = g], auction).passed
                          => ~Matches([criteria EXCEPT !.gpu_type = g], auction)
                 /\ \A n \in NumGpusCriteria :
                       ~CheckNumGpus([criteria EXCEPT !.num_gpus = n], auction).passed
                          => ~Matches([criteria EXCEPT !.num_gpus = n], auction)
                 /\ \A f \in FcpCriteria :
                       ~CheckFcpInstance([criteria EXCEPT !.fcp_instance = f], auction).passed
                          => ~Matches([criteria EXCEPT !.fcp_instance = f], auction)

\* An auction matched criteria that specify all five fields, the count at
\* its boundary.
C10_Witness ==
    /\ matched # NoResult
    /\ matched.value
    /\ ~criteria.gpu_type.isnone /\ criteria.gpu_type.v # <<>>
    /\ ~criteria.num_gpus.isnone
    /\ ~auction.inventory_quantity.isnone
    /\ auction.inventory_quantity.v = criteria.num_gpus.v
    /\ ~criteria.internode_interconnect.isnone
    /\ ~criteria.intranode_interconnect.isnone
    /\ ~criteria.fcp_instance.isnone /\ criteria.fcp_instance.v # <<>>


\* Indices of the auctions argument the matcher accepts, and the k-th of them.
MatchingIndices == {i \in 1..Len(auctions) : Matches(criteria, auctions[i])}
KthMatching(k) ==
    CHOOSE i \in MatchingIndices : Cardinality({j \in MatchingIndices : j <= i}) = k

\* C11: find_matching_auctions returns exactly the auctions the matcher
\* accepts, in their original relative order, nothing added, duplicated or
\* reordered: the k-th returned auction is the k-th accepted element of the
\* input.  Criteria gpu_type A100 and num_gpus 4 against the four sample
\* auctions give the first two, in that order.
C11_FindIsStableFilter ==
    find_pc = "done"
        => /\ Len(matching_auctions) = Cardinality(MatchingIndices)
           /\ \A k \in 1..Len(matching_auctions) :
                 matching_auctions[k] = auctions[KthMatching(k)]
           /\ (/\ auctions = <<Auction1, Auction2, Auction3, Auction4>>
               /\ criteria.gpu_type = Some(<<"A", "1", "0", "0">>)
               /\ criteria.num_gpus = Some(4))
                 => matching_auctions = <<Auction1, Auction2>>

\* The sample scenario has been filtered.
C11_Witness ==
    /\ find_pc = "done"
    /\ auctions = <<Auction1, Auction2, Auction3, Auction4>>
    /\ criteria.gpu_type = Some(<<"A", "1", "0", "0">>)
    /\ criteria.num_gpus = Some(4)
    /\ Len(matching_auctions) = 2


\* fetch_auctions has finished / was called with neither argument / with
\* project_id and no local_catalog_path.
FetchDone == fetch_pc \in {"done", "again"}
CalledWithNeither ==
    fetch_args.project_id = None /\ fetch_args.local_catalog_path = None
CalledWithProjectOnly ==
    ~Falsy(fetch_args.project_id) /\ fetch_args.local_catalog_path = None
FetchRaised(exc) == fetched.kind = "raise" /\ fetched.exc = exc

C13_ProjectOnlyReturnsLiveList ==
    (FetchDone /\ CalledWithProjectOnly /\ files.default = "missing"
        /\ live.kind = "return")
        => fetched = Return(live.value)

\* Both sources gave auctions and the merge ran.
Enriched ==
    /\ FetchDone
    /\ fetched.kind = "return"
    /\ auctions_from_foundry # <<>>
    /\ auctions_from_local # <<>>

AuctionFields ==
    {"cluster_id", "gpu_type", "inventory_quantity", "num_gpus",
     "intranode_interconnect", "internode_interconnect", "fcp_instance",
     "instance_type_id", "last_price", "region", "region_id",
     "resource_specification_id"}

\* C14: in the merge, for every live auction sharing its instance_type_id
\* with a catalog entry and for every field, the merged auction has the live
\* value whenever the live auction has the field present (a 0 included), and
\* the catalog value only when the live value is absent.
C14_LiveValueWinsWhenPresent ==
    Enriched =>
        /\ Len(fetched.value) = Len(auctions_from_foundry)
        /\ \A i \in 1..Len(auctions_from_foundry) :
              LET f == auctions_from_foundry[i]
                  m == LocalMatch(auctions_from_local, f.instance_type_id)
              IN  (~Falsy(f.instance_type_id) /\ m # None)
                     => \A fld \in AuctionFields :
                           fetched.value[i][fld] =
                               IF ~f[fld].isnone THEN f[fld] ELSE m.v[fld]

\* C15: enriching the enriched list against the same catalog again gives a
\* list equal to it, field for field.
C15_EnrichmentIdempotent ==
    fetch_pc = "again" => enriched_again = Return(fetched.value)

\* The merge changed a live auction, and the second merge has run.
C15_Witness ==
    /\ fetch_pc = "again"
    /\ enriched_again.kind = "return"
    /\ fetched.value # auctions_from_foundry

\* The catalog file fetch_auctions reads does not exist.
CatalogMissing ==
    \/ fetch_args.local_catalog_path # None /\ files.explicit = "missing"
    \/ fetch_args.local_catalog_path = None /\ files.default = "missing"

\* C16: with project_id supplied and the catalog file (explicit or default)
\* missing, fetch_auctions returns the live auctions; the catalog error
\* comes only from a catalog that exists and is malformed.  Stated for a
\* non-empty live list.
C16_MissingCatalogDegrades ==
    /\ (FetchDone /\ ~Falsy(fetch_args.project_id) /\ live.kind = "return"
           /\ live.value # <<>> /\ CatalogMissing)
          => fetched = Return(live.value)
    /\ (FetchDone /\ FetchRaised("AuctionCatalogError")) => ~CatalogMissing

(***************************************************************************)
(* BidManager.submit_bid                                                   *)
(***************************************************************************)
SubmitBidDone == pc = "done" /\ call.entry = "submit_bid"

\* The arguments of the call in hand.
CallArgs == SubmitBidArgs(call.base, call.quantity, call.chunk_size, call.defect)

\* Single-bid mode as the documentation has it: a payload was given, or
\* allow_partial_fulfillment is false and the parameters build a payload.
SingleMode ==
    \/ call.has_payload
    \/ /\ ~call.allow_partial
       /\ SingleParamsComplete(CallArgs)
       /\ BidPayloadValid(CallArgs.instance_quantity.v, CallArgs.limit_price_cents.v)

PartialMode ==
    ~call.has_payload /\ call.allow_partial /\ PartialBidParamsValid(CallArgs)

\* C18: submit_bid in single-bid mode (a payload, or raw parameters with
\* allow_partial_fulfillment false) issues exactly one place_bid request and
\* what it returns is a list of exactly one Bid; in partial mode what it
\* returns holds exactly one Bid per chunk.
C18_OneBidPerSubmission ==
    /\ (SubmitBidDone /\ SingleMode)
          => /\ Len(requests) = 1
             /\ requests[1].method = "POST"
             /\ result.kind = "return"
                   => /\ Len(result.value) = 1
                      /\ result.value[1].name = PlainName(call.base)
    /\ (SubmitBidDone /\ PartialMode /\ result.kind = "return")
          => /\ Len(result.value) = CeilDiv(call.quantity, call.chunk_size)
             /\ \A n \in 1..Len(result.value) :
                   result.value[n].name = ChunkOrderName(call.base, n)

\* A payload given together with allow_partial_fulfillment = True and complete
\* parameters was submitted as one bid.
C18_Witness ==
    /\ SubmitBidDone
    /\ call.has_payload
    /\ call.allow_partial
    /\ call.defect = NoDefect
    /\ result.kind = "return"
    /\ Len(result.value) = 1

\* The call has no payload and lacks a field its mode requires.
MissingRequiredField ==
    /\ ~call.has_payload
    /\ \/ call.defect.how = "None"
       \/ call.allow_partial /\ call.defect.field = "chunk_size"

\* C19: submit_bid without a payload and with a required field of its mode
\* missing (or, in partial mode, an invalid chunk_size) raises ValueError
\* before any place_bid request is issued, and no order is placed.
C19_MissingFieldRaisesBeforeRequest ==
    (SubmitBidDone /\ MissingRequiredField)
        => /\ result.kind = "raise"
           /\ result.exc = "ValueError"
           /\ requests = <<>>
           /\ Len(remoteOrders) = call.orders_before

\* Single mode without ssh_key_id was rejected while orders of earlier calls
\* stay on the remote.
C19_Witness ==
    /\ SubmitBidDone
    /\ ~call.has_payload
    /\ ~call.allow_partial
    /\ call.defect = [field |-> "ssh_key_id", how |-> "None"]
    /\ result.kind = "raise"
    /\ Len(remoteOrders) > 0

(***************************************************************************)
(* FlowTaskManager.run                                                     *)
(***************************************************************************)
StageOrder == <<"configure", "authenticate", "resolve", "match", "select",
                "storage", "payload", "submit">>

StageRank(stage) == CHOOSE n \in 1..Len(StageOrder) : StageOrder[n] = stage

Entered(stage) == \E n \in 1..Len(stages) : stages[n] = stage

\* C17 (as claimed): a quantity or price of 0 or below is rejected when the
\* payload is constructed and never replaced: a payload that exists has a
\* strictly positive quantity and price, and the bid a run places asks for
\* the num_instances its resource specification gives, so that a run with
\* num_instances = 0 places no bid.
C17_NonPositiveNeverReplaced ==
    /\ bid_payload # NoPayload
          => bid_payload.instance_quantity > 0 /\ bid_payload.limit_price_cents > 0
    /\ ~run_config.num_instances.isnone
          => \A n \in 1..Len(bids_placed) :
                bids_placed[n].instance_quantity = run_config.num_instances.v

\* C20: the stages of a run are entered in the order authenticate, resolve,
\* fetch and match, storage (only when configured), submit, each at most
\* once; a stage that raises is the last one entered; a bid is submitted only
\* after authentication, resolution and matching succeeded.
C20_StagesInOrder ==
    /\ \A m, n \in 1..Len(stages) :
          m < n => StageRank(stages[m]) < StageRank(stages[n])
    /\ Entered("storage") => run_config.persistent_storage
    /\ (Entered("submit") /\ run_config.persistent_storage) => Entered("storage")
    /\ run_result.kind = "raise"
          => /\ run_pc = "done"
             /\ stages[Len(stages)] = failed_stage
    /\ bids_placed # <<>> => Entered("submit")
    /\ Entered("submit")
          => /\ Entered("authenticate") /\ Entered("resolve") /\ Entered("match")
             /\ run_matching # <<>>
             /\ failed_stage \in {"none", "submit"}
             /\ Len(bids_placed) = 1

\* A run with storage configured went through every stage and placed its bid.
C20_Witness ==
    /\ run_pc = "done"
    /\ run_result.kind = "return"
    /\ run_config.persistent_storage
    /\ stages = <<"configure", "authenticate", "resolve", "match", "select",
                  "storage", "payload", "submit">>
    /\ Len(bids_placed) = 1

\* C21 (as claimed): a failure of a run is the error of its stage: the
\* authentication error for any failure while authenticating and resolving
\* identities, the no-matching-auctions error when no auction matches (an
\* empty auction list from the marketplace included), the bid-submission
\* error for any failure while submitting.
C21_StageSpecificErrors ==
    run_result.kind = "raise"
        => /\ failed_stage \in {"authenticate", "resolve"}
                 => run_result.exc = "AuthenticationError"
           /\ (failed_stage = "match" /\ run_result.msg = <<"No", "auctions", "found">>)
                 => run_result.exc = "NoMatchingAuctionsError"
           /\ (failed_stage = "select" /\ run_matching = <<>>)
                 => run_result.exc = "NoMatchingAuctionsError"
           /\ failed_stage = "submit" => run_result.exc = "BidSubmissionError"

\* The priority the run works with: task_management.priority or "standard".
ConfiguredPriority ==
    IF run_config.priority.isnone THEN "standard" ELSE run_config.priority.v

\* C22 (as claimed): once the configuration is read, an explicit
\* utility-threshold price gives the limit price (the price times 100, that
\* is its hundredths) whatever the priority is; without one the limit price
\* is the tier's fixed price, standard by default, and a priority outside
\* the four tiers is a configuration error.
C22_PriceResolution ==
    Entered("configure")
        => /\ ~run_config.utility_threshold_price.isnone
                 => /\ failed_stage # "configure"
                    /\ run_limit_price = run_config.utility_threshold_price.v
           /\ (run_config.utility_threshold_price.isnone
                  /\ ~PriorityPriceCents(ConfiguredPriority).isnone)
                 => /\ failed_stage # "configure"
                    /\ run_limit_price = PriorityPriceCents(ConfiguredPriority).v
           /\ (run_config.utility_threshold_price.isnone
                  /\ PriorityPriceCents(ConfiguredPriority).isnone)
                 => /\ failed_stage = "configure"
                    /\ run_result.exc = "ValueError"

\* C23 (as claimed): a first run that fails on the disk conflict has the stale
\* disk deleted and run called a second time, and only a second time; what
\* the second run raises, and any failure of the first run that is not the
\* conflict, reaches the caller with no further run.
C23_ConflictCleanupAndRetryOnce ==
    /\ attempts <= 2
    /\ (driver_pc = "done" /\ IsDiskConflict(first_failure))
          => attempts = 2 /\ disk_deleted
    /\ (driver_pc = "done" /\ first_failure.kind = "raise"
           /\ ~IsDiskConflict(first_failure))
          => attempts = 1 /\ driver_result = first_failure
    /\ (driver_pc = "done" /\ attempts = 2 /\ run_result.kind = "raise")
          => driver_result = run_result

(***************************************************************************)
(* The HTTP client.                                                        *)
(***************************************************************************)
HttpDone == http_pc = "done"

HttpFailed ==
    \/ session_outcome.kind # "response"
    \/ session_outcome.status >= 400

\* C24: every failure of a request reaches the caller as TimeoutError for a
\* timeout, NetworkError for a connection failure, AuthenticationError for a
\* 401 or 403 response and APIError for any other status >= 400 or request
\* failure.
C24_ClosedErrorTaxonomy ==
    (HttpDone /\ HttpFailed) =>
        /\ http_result.kind = "raise"
        /\ http_result.exc =
              CASE session_outcome.kind = "timeout" -> "TimeoutError"
                [] session_outcome.kind = "connection_error" -> "NetworkError"
                [] session_outcome.kind = "request_exception" -> "APIError"
                [] OTHER -> IF session_outcome.status \in {401, 403}
                            THEN "AuthenticationError"
                            ELSE "APIError"

TransientThenOk ==
    /\ HttpDone
    /\ http_call.entry = "get_user"
    /\ transport.failures >= 1
    /\ transport.then = "ok"

ThreadDone(i) == threads # <<>> /\ threads[i].pc = "done"

ThreadSent(i) == threads # <<>> /\ threads[i].pc # "start"

OwnBidResponse(i) ==
    /\ threads[i].result.kind = "return"
    /\ threads[i].result.value.name = threads[i].payload.order_name
    /\ threads[i].result.value.instance_quantity = threads[i].payload.instance_quantity
    /\ threads[i].resp.origin = "accepted" =>
          \E n \in 1..Len(remoteOrders) :
              /\ remoteOrders[n].id = threads[i].result.value.id
              /\ remoteOrders[n].name = threads[i].payload.order_name

\* C26: in every interleaving of the threads' place_bid calls each finished
\* call has returned a BidResponse for its own request, none has raised, and
\* the calls given no idempotency key have sent pairwise distinct keys.
C26_ConcurrentPlaceBid ==
    /\ \A i \in Threads : ThreadDone(i) => OwnBidResponse(i)
    /\ \A i, j \in Threads :
          (/\ i # j
           /\ ThreadSent(i)
           /\ ThreadSent(j)
           /\ threads[i].idempotency_key = NoKey
           /\ threads[j].idempotency_key = NoKey)
          => threads[i].req.key # threads[j].req.key

\* Two calls of one order name and no key have both finished, the second
\* one sent before the first one's reply and answered as a duplicate.
C26_Witness ==
    /\ \A i \in Threads : ThreadDone(i) /\ threads[i].idempotency_key = NoKey
    /\ threads[1].payload = threads[2].payload
    /\ threads[1].resp.origin = "duplicate"
    /\ threads[2].resp.origin = "accepted"
    /\ threads[1].req.key = Uuid(1)

(***************************************************************************)
(* The catalog loader.                                                     *)
(***************************************************************************)
WellFormed(kind) == kind \in {"with_region", "without_region", "null_region"}

RECURSIVE AuctionsOfWellFormed(_)
AuctionsOfWellFormed(n) ==
    IF n = 0 THEN <<>>
    ELSE LET rest == AuctionsOfWellFormed(n - 1)
             item == raw_data[n]
         IN  IF WellFormed(item.kind)
             THEN Append(rest, [cluster_id |-> n,
                                region |-> CASE item.kind = "with_region" -> Some("asia-east1-a")
                                             [] item.kind = "null_region" -> None
                                             [] OTHER -> Some(item.region_name)])
             ELSE rest

\* C27: a load raises nothing and returns exactly the auctions of the
\* well-formed records, in file order, whatever malformed records (a record
\* that is no mapping included) stand among them; a record without region
\* has the region-name key it stands under.
C27_MalformedRecordsDropped ==
    load_result # NoResult => load_result = Return(AuctionsOfWellFormed(Len(raw_data)))

(***************************************************************************)
(* submit_bid from two threads.                                            *)
(***************************************************************************)
\* C28: every chunk of each of the two concurrent partial-fulfillment calls
\* is built with that call's own callback; no call runs submit_chunks on the
\* engine the other call stored.
C28_OwnCallbackPerCall ==
    callers # <<>> =>
        \A i \in Callers :
            /\ callers[i].pc \in {"chunks", "done"} => callers[i].engine.owner = i
            /\ \A n \in 1..Len(callers[i].scripts) :
                  callers[i].scripts[n].by = CallbackOf(i)

(***************************************************************************)
(* Termination of submit_chunks.                                           *)
(***************************************************************************)
\* C29: submit_chunks ends for every instance_quantity > 0 and chunk_size > 0
\* when every submission returns or raises: remaining is never below 0, each
\* iteration makes it strictly smaller, and the loop returns exactly when it
\* is 0.
C29_SubmitChunksTerminates ==
    /\ [](remaining >= 0)
    /\ [][(pc = "replied" /\ pc' = "loop") => remaining' < remaining]_vars
    /\ [][(pc # "idle" /\ remaining' # remaining) => (pc = "replied" /\ pc' = "loop")]_vars
    /\ []((pc = "done" /\ result.kind = "return") => remaining = 0)
    /\ []((pc = "loop" /\ remaining = 0) => <>(pc = "done" /\ result.kind = "return"))
    /\ <>(pc = "done")

\* Three instances went out in chunks of two and of one.
C29_Witness ==
    /\ pc = "done"
    /\ call.kind = "chunks"
    /\ call.quantity = 3
    /\ call.chunk_size = 2
    /\ result.kind = "return"
    /\ Len(bids_submitted) = 2
    /\ remaining = 0

(***************************************************************************)
(* The shape of the enrichment merge.                                      *)
(***************************************************************************)
\* C30: the merge returns one auction per live auction, in the live list's
\* order: the live auction itself when it has no instance_type_id or no
\* catalog entry shares it, and otherwise an auction with the live
\* instance_type_id; nothing is added from the catalog alone and no live
\* auction is dropped.
C30_EnrichmentKeepsShape ==
    Enriched =>
        /\ Len(fetched.value) = Len(auctions_from_foundry)
        /\ \A i \in 1..Len(auctions_from_foundry) :
              LET f == auctions_from_foundry[i] IN
              IF Falsy(f.instance_type_id)
                 \/ LocalMatch(auctions_from_local, f.instance_type_id) = None
              THEN fetched.value[i] = f
              ELSE fetched.value[i].instance_type_id = f.instance_type_id

\* A live list of two went through the merge: the first auction has no
\* catalog match and came back as it was, the second came back changed.
C30_Witness ==
    /\ Enriched
    /\ Len(auctions_from_foundry) = 2
    /\ ~Falsy(auctions_from_foundry[1].instance_type_id)
    /\ LocalMatch(auctions_from_local, auctions_from_foundry[1].instance_type_id) = None
    /\ fetched.value[1] = auctions_from_foundry[1]
    /\ fetched.value[2] # auctions_from_foundry[2]

====
